---- MODULE Spec2Model ----
(***************************************************************************)
(* Model of the Eksi Sozluk scraper (src/new/scraper.py): the run lock,    *)
(* the main pipeline with its exit codes, the fetcher with its retries,    *)
(* the page walk, validation, the diff, and the backup-rotated, atomic     *)
(* state store (validate_entries, load_state, load_state_from_backup,      *)
(* rotate_backups, save_state_atomic).                                     *)
(*                                                                         *)
(* The content-aware diff of the older scraper                             *)
(* (src/python-scraper/data_manager.py) is modelled beside it.             *)
(*                                                                         *)
(* The specifications share the variables:                                 *)
(*   Spec         - NumProcs scraper processes started with the same       *)
(*                  --state file: acquire_lock, the pipeline of main, the  *)
(*                  release.                                               *)
(*   SpecStore    - one run at a time calling save_state_atomic (one step  *)
(*                  per file operation, with crashes and I/O errors) and   *)
(*                  load_state, with external corruption of the files.     *)
(*   SpecPipeline - one run of main, one step per request, sleep, page and *)
(*                  pipeline stage, over every configuration and target.   *)
(*   SpecPipelineLive - SpecPipeline with weak fairness: a run that can    *)
(*                  take a step takes one.                                 *)
(*   SpecPure     - validate_entries and compute_diff applied to batches   *)
(*                  and previous states drawn from bounded sets.           *)
(*   SpecVariant  - DataManager.diff, one step per iteration of its loop,  *)
(*                  over old and new data drawn from bounded sets.         *)
(*   SpecMain     - scheduled runs of the python-scraper main: load_data,  *)
(*                  EksiScraper.scrape page by page, diff, save_data,      *)
(*                  save_diff, the debug copies, the interrupted file.     *)
(*   SpecLegacy   - repeated runs of the legacy scrape_eksi (src/scraper.py)*)
(*                  over a thread, with failing requests and writes;       *)
(*                  SpecLegacyLive adds weak fairness.                     *)
(*                                                                         *)
(* Encoding of Python values: every field value is a string; Missing       *)
(* stands for an absent dict key and the members of NotStr for values that *)
(* are not of type str.  In the content-aware diff a content is a sequence *)
(* of pieces of text, so that prefixes, suffixes and whitespace are what   *)
(* they are in Python.                                                     *)
(***************************************************************************)
EXTENDS Integers, Sequences, FiniteSets, TLC

\* ------------------------------------------------------------------ bounds
NumProcs == 3   \* scraper processes started against one state file
MaxOps == 2     \* store operations (saves, corruptions) in one behaviour
NumPids == 2    \* process identifiers the operating system hands out
MaxPages == 2   \* largest page count the pager of a thread announces
MaxRuns == 2    \* scheduled runs of the python-scraper main in one behaviour
MaxFailures == 2 \* failed requests and writes before the legacy scraper's I/O works

\* --------------------------------------------------------------- constants
STATE_BACKUP_COUNT == 5
MAX_RETRIES == 3
RETRY_BACKOFF_BASE == 2

Procs == 1..NumProcs
Pids == 1..NumPids
\* identifiers a temp file name can carry: a process of Spec uses its own number
TmpIds == 1..(IF NumProcs > NumPids THEN NumProcs ELSE NumPids)
\* backup slots the model can tell apart: one more than the retention count,
\* so that a backup numbered beyond STATE_BACKUP_COUNT would be visible
Slots == 1..(STATE_BACKUP_COUNT + 1)

\* ------------------------------------------------------------------ values
Missing == "<missing>"
NotStr == {"#7"}
IsStr(v) == v # Missing /\ v \notin NotStr

required_fields == {"id", "author", "timestamp", "content", "scraped_at"}

Entry(id, content, ts) ==
    [py |-> "dict", id |-> id, author |-> "ali", timestamp |-> ts,
     content |-> content, scraped_at |-> "t0"]

EA == Entry("1", "a", "10:00")
EB == Entry("1", "b", "10:00")
EC == Entry("2", "c", "10:05")
ENoId == Entry("", "x", "10:07")
EMiss == Entry("3", Missing, "10:08")
\* a list element that is no container (a JSON number): `field in entry` raises
EScalar == [py |-> "int", id |-> Missing, author |-> Missing, timestamp |-> Missing,
            content |-> Missing, scraped_at |-> Missing]

\* more records of the thread, and later observations of the same records
E3 == Entry("3", "d", "10:06")
E4 == Entry("4", "", "10:07")
E5 == Entry("5", "e", "10:08")
EC2 == Entry("2", "c2", "10:05")
EATs == Entry("1", "a", "10:01")
ENotStrId == Entry("#7", "x", "10:09")
ENotStrContent == Entry("6", "#7", "10:09")
ENoAuthor == [Entry("7", "x", "10:09") EXCEPT !.author = Missing]

\* the batches a run hands to save_state_atomic
Batches == { <<EA>>, <<EB, EC>>, <<EA, EB>>, <<ENoId, EMiss>> }

\* ------------------------------------------------------------- validation
\* mutant: an empty content is refused
validate_entry_NonEmptyContent(entry) ==
    /\ \A field \in required_fields : entry[field] # Missing
    /\ IsStr(entry.id) /\ entry.id # ""
    /\ IsStr(entry.content) /\ entry.content # ""

validate_entry(entry) ==
    /\ \A field \in required_fields : entry[field] # Missing
    /\ IsStr(entry.id) /\ entry.id # ""
    /\ IsStr(entry.content)

\* `field in entry` raises TypeError on an element that is no container
EntryRaises(entry) == entry.py # "dict"

RECURSIVE ValidateLoop(_, _, _, _)
ValidateLoop(entries, valid_entries, errors, seen_ids) ==
    IF entries = << >> THEN [valid |-> valid_entries, errors |-> errors]
    ELSE LET entry == Head(entries) IN
         IF ~validate_entry(entry)
         THEN ValidateLoop(Tail(entries), valid_entries,
                           Append(errors, <<"Invalid entry structure", entry.id>>), seen_ids)
         ELSE IF entry.id \in seen_ids
         THEN ValidateLoop(Tail(entries), valid_entries,
                           Append(errors, <<"Duplicate entry ID", entry.id>>), seen_ids)
         ELSE ValidateLoop(Tail(entries), Append(valid_entries, entry), errors,
                           seen_ids \cup {entry.id})

validate_entries(entries) == ValidateLoop(entries, << >>, << >>, {})

\* ------------------------------------------------------------ file contents
\* kind: "absent"  no such file
\*       "empty"   created or truncated, nothing written (json.load raises)
\*       "partial" truncated or damaged JSON text (json.load raises)
\*       "nonlist" well-formed JSON that is not a list
\*       "list"    a JSON list, items holds its elements
Absent == [kind |-> "absent", items |-> << >>]
EmptyFile == [kind |-> "empty", items |-> << >>]
Partial == [kind |-> "partial", items |-> << >>]
NonList == [kind |-> "nonlist", items |-> << >>]

\* json.dump(valid_entries, f): the text of a JSON list of the entries
json_dump(entries) == [kind |-> "list", items |-> entries]

Exists(c) == c.kind # "absent"
\* open + json.load raise on these
ParseRaises(c) == c.kind \in {"empty", "partial"}

\* {entry['id']: entry for entry in entries if validate_entry(entry)}:
\* a later entry replaces an earlier one with the same id
RECURSIVE DictById(_, _)
DictById(entries, acc) ==
    IF entries = << >> THEN acc
    ELSE LET entry == Head(entries) IN
         IF validate_entry(entry)
         THEN DictById(Tail(entries),
                       [k \in (DOMAIN acc) \cup {entry.id} |->
                            IF k = entry.id THEN entry ELSE acc[k]])
         ELSE DictById(Tail(entries), acc)

EmptyState == [k \in {} |-> EA]

\* the comprehension raises as soon as one element is no container
ListRaises(c) == \E n \in DOMAIN c.items : EntryRaises(c.items[n])

\* ------------------------------------------------------------------- load
\* mutant: the loop walks the backups from the oldest to the most recent
load_state_from_backup_OldestFirst(f) ==
    LET usable == { n \in 1..STATE_BACKUP_COUNT :
                      f.backup[n].kind = "list" /\ ~ListRaises(f.backup[n]) }
    IN IF usable = {} THEN [state |-> EmptyState, log |-> "all_backups_failed", from |-> 0]
       ELSE LET n == CHOOSE m \in usable : \A o \in usable : o <= m
            IN [state |-> DictById(f.backup[n].items, EmptyState),
                log |-> "loaded_from_backup", from |-> n]

RECURSIVE BackupLoop(_, _)
BackupLoop(f, n) ==
    IF n > STATE_BACKUP_COUNT
    THEN [state |-> EmptyState, log |-> "all_backups_failed", from |-> 0]
    ELSE LET c == f.backup[n] IN
         IF ~Exists(c) THEN BackupLoop(f, n + 1)
         ELSE IF ParseRaises(c) THEN BackupLoop(f, n + 1)
         ELSE IF c.kind # "list" THEN BackupLoop(f, n + 1)
         ELSE IF ListRaises(c) THEN BackupLoop(f, n + 1)
         ELSE [state |-> DictById(c.items, EmptyState),
               log |-> "loaded_from_backup", from |-> n]

load_state_from_backup(f) == BackupLoop(f, 1)

load_state(f) ==
    IF ~Exists(f.primary) THEN [state |-> EmptyState, log |-> "no_file", from |-> 0]
    ELSE IF ParseRaises(f.primary) THEN load_state_from_backup(f)
    ELSE IF f.primary.kind # "list"
    THEN [state |-> EmptyState, log |-> "invalid_format_ignored", from |-> 0]
    ELSE IF ListRaises(f.primary) THEN load_state_from_backup(f)
    ELSE [state |-> DictById(f.primary.items, EmptyState), log |-> "primary", from |-> 0]

\* ------------------------------------------------------------------- diff
\* {entry['id']: entry for entry in current_entries}: a later entry replaces
\* an earlier one with the same id
RECURSIVE CurrentById(_, _)
CurrentById(current_entries, acc) ==
    IF current_entries = << >> THEN acc
    ELSE LET entry == Head(current_entries) IN
         CurrentById(Tail(current_entries),
                     [k \in (DOMAIN acc) \cup {entry.id} |->
                          IF k = entry.id THEN entry ELSE acc[k]])

\* [by_id[eid] for eid in ids]: the list follows the iteration order of the
\* set, which Python leaves open; CHOOSE fixes one order
RECURSIVE ListOver(_, _)
ListOver(ids, by_id) ==
    IF ids = {} THEN << >>
    ELSE LET eid == CHOOSE x \in ids : TRUE
         IN <<by_id[eid]>> \o ListOver(ids \ {eid}, by_id)

\* mutant: only the content is compared
IsEdited_ContentOnly(curr, prev) == curr.content # prev.content
\* mutant: the capture time is compared as well
IsEdited_WithScrapedAt(curr, prev) ==
    curr.content # prev.content \/ curr.timestamp # prev.timestamp
        \/ curr.scraped_at # prev.scraped_at
\* curr['content'] != prev['content'] or curr['timestamp'] != prev['timestamp']
IsEdited(curr, prev) == curr.content # prev.content \/ curr.timestamp # prev.timestamp

\* the dict appended to edited_entries
EditedEntry(eid, curr, prev) ==
    [id |-> eid, author |-> curr.author,
     previous |-> [content |-> prev.content, timestamp |-> prev.timestamp],
     current |-> [content |-> curr.content, timestamp |-> curr.timestamp],
     scraped_at |-> curr.scraped_at]

compute_diff(current_entries, previous_state) ==
    LET current_by_id == CurrentById(current_entries, EmptyState)
        current_ids == DOMAIN current_by_id
        previous_ids == DOMAIN previous_state
        new_ids == current_ids \ previous_ids
        new_entries == ListOver(new_ids, current_by_id)
        deleted_ids == previous_ids \ current_ids
        deleted_entries == ListOver(deleted_ids, previous_state)
        common_ids == current_ids \cap previous_ids
        edited_ids == { eid \in common_ids : IsEdited(current_by_id[eid], previous_state[eid]) }
        edited_entries ==
            ListOver(edited_ids,
                     [eid \in edited_ids |->
                          EditedEntry(eid, current_by_id[eid], previous_state[eid])])
    IN [new |-> new_entries, edited |-> edited_entries, deleted |-> deleted_entries,
        summary |-> [new_count |-> Len(new_entries),
                     edited_count |-> Len(edited_entries),
                     deleted_count |-> Len(deleted_entries),
                     total_current |-> Len(current_entries),
                     total_previous |-> Cardinality(previous_ids)]]

\* diff is None / compute_diff was not called
NoDiff == [new |-> << >>, edited |-> << >>, deleted |-> << >>,
           summary |-> [new_count |-> -1, edited_count |-> -1, deleted_count |-> -1,
                        total_current |-> -1, total_previous |-> -1]]

\* ------------------------------------------------------- file operations
\* Path.rename(new_backup): backup n replaces backup n + 1
RenameBackup(f, n) ==
    [f EXCEPT !.backup = [@ EXCEPT ![n + 1] = f.backup[n], ![n] = Absent]]

\* one iteration of the loop of rotate_backups
RotateIteration(f, n) == IF Exists(f.backup[n]) THEN RenameBackup(f, n) ELSE f

\* shutil.copy2 opens the destination for writing, then copies the bytes
CopyOpenDst(f) == [f EXCEPT !.backup = [@ EXCEPT ![1] = EmptyFile]]
\* mutant: the primary is moved to backup 1 instead of copied
CopyBytes_Move(f) == [f EXCEPT !.backup = [@ EXCEPT ![1] = f.primary], !.primary = Absent]
CopyBytes(f) == [f EXCEPT !.backup = [@ EXCEPT ![1] = f.primary]]
CopyTorn(f) == [f EXCEPT !.backup = [@ EXCEPT ![1] = Partial]]

\* mutant: the state file itself is opened for writing
OpenTemp_InPlace(f, p) == [f EXCEPT !.primary = EmptyFile, !.tmp = [@ EXCEPT ![p] = EmptyFile]]
\* open(temp_file, 'w') creates or truncates the caller's own temp file
OpenTemp(f, p) == [f EXCEPT !.tmp = [@ EXCEPT ![p] = EmptyFile]]
\* mutant: the batch is appended to the records already stored
WriteTemp_Append(f, p, valid_entries) ==
    [f EXCEPT !.tmp = [@ EXCEPT ![p] = json_dump(f.primary.items \o valid_entries)]]
\* json.dump + flush + fsync into the temp file
WriteTemp(f, p, valid_entries) ==
    [f EXCEPT !.tmp = [@ EXCEPT ![p] = json_dump(valid_entries)]]
TornTemp(f, p) == [f EXCEPT !.tmp = [@ EXCEPT ![p] = Partial]]
\* os.rename(temp_file, state_file)
RenameTemp(f, p) == [f EXCEPT !.primary = f.tmp[p], !.tmp = [@ EXCEPT ![p] = Absent]]
\* Path(temp).unlink(missing_ok=True)
UnlinkTemp(f, p) == [f EXCEPT !.tmp = [@ EXCEPT ![p] = Absent]]

\* mutant: the loop starts one backup too low
RotateFrom_TooLow == STATE_BACKUP_COUNT - 2
\* first value of the loop variable of rotate_backups
RotateFrom == STATE_BACKUP_COUNT - 1

\* ---------------------------------------------------------------- state
VARIABLES
    fs,          \* the state file, its backups and the temp files
    spc,         \* position of the run inside save_state_atomic, or "idle"
    i,           \* loop variable of rotate_backups
    pid,         \* os.getpid() of the run
    entries,     \* argument of save_state_atomic
    valid,       \* valid_entries
    pre,         \* fs when save_state_atomic was entered
    result,      \* how the last save ended: "none", "running", "true", "false", "crashed"
    copyFailed,  \* the warning "Failed to create backup" was printed
    loaded,      \* what load_state returned, and the message it printed
    ops,         \* store operations so far
    ppc,         \* position of each process in main / acquire_lock
    fd,          \* lock_fd of each process: the inode it opened, 0 when none
    lockPath,    \* the inode the lock path names, 0 when the path does not exist
    flockOwner,  \* per inode: the process holding the flock on it, 0 when free
    lockText,    \* per inode: the process identifier written in the lock file, 0 when empty
    nextInode,   \* inodes created so far + 1
    run,         \* per process, inside the pipeline: valid_entries, metadata['partial_scrape']
    exitCode,    \* per process: argument of sys.exit, -1 while none was called
    outcome,     \* per process: the outcome the run signals
    mpc,         \* position of the single run of SpecPipeline / SpecPure
    config,      \* parse_args: state_file given, diff_only, and whether the url is well formed
    fetch,       \* fetch_html_with_retry: attempt, requests made, sleeps, last response, result
    walk,        \* scrape_all_pages: page_count, loop index, pages attempted, all_entries
    metadata,    \* metadata of scrape_all_pages
    vresult,     \* what validate_entries returned
    previous,    \* previous_state: what load_state returned to main, and its message
    diff,        \* what compute_diff returned, NoDiff while it was not called
    emitted,     \* output_data handed to write_output, NoOutput while nothing was written
    exit_status, \* argument of sys.exit of the single run, -1 while none was called
    fs0,         \* the files when the single run started
    dm,          \* DataManager.diff: old_data, new_data, loop index, diffs
    vfiles,      \* python-scraper: the data, diff, debug and interrupted files
    vmain,       \* python-scraper: position and locals of main
    scr,         \* python-scraper: position and locals of EksiScraper.scrape
    lg           \* legacy scraper: position, locals and files of scrape_eksi

storeVars == <<spc, i, pid, entries, valid, pre, result, copyFailed, loaded, ops>>

NotLoaded == [done |-> FALSE, state |-> EmptyState, log |-> "", from |-> 0]

EmptyFs == [primary |-> Absent, backup |-> [n \in Slots |-> Absent], tmp |-> [p \in TmpIds |-> Absent]]
\* after six or more successful runs: the primary and all five backups are lists
FullFs ==
    [primary |-> json_dump(<<EB, EC>>),
     backup |-> [n \in Slots |->
                   IF n > STATE_BACKUP_COUNT THEN Absent
                   ELSE IF n % 3 = 1 THEN json_dump(<<EC>>)
                   ELSE IF n % 3 = 2 THEN json_dump(<<EA>>)
                   ELSE json_dump(<<EB, EC>>)],
     tmp |-> [p \in TmpIds |-> Absent]]

lockVars == <<ppc, fd, lockPath, flockOwner, lockText, nextInode, run, exitCode, outcome>>

pipeVars == <<mpc, config, fetch, walk, metadata, vresult, previous, diff, emitted, exit_status, fs0>>

mainVars == <<vfiles, vmain, scr>>
variantVars == <<dm, mainVars, lg>>

Inodes == 1..NumProcs
NoRun == [valid |-> << >>, partial |-> FALSE]

LockIdle ==
    /\ ppc = [p \in Procs |-> "start"]
    /\ fd = [p \in Procs |-> 0]
    /\ lockPath = 0
    /\ flockOwner = [n \in Inodes |-> 0]
    /\ lockText = [n \in Inodes |-> 0]
    /\ nextInode = 1
    /\ run = [p \in Procs |-> NoRun]
    /\ exitCode = [p \in Procs |-> -1]
    /\ outcome = [p \in Procs |-> "running"]

StoreIdle ==
    /\ spc = "idle" /\ i = 0 /\ pid = 1 /\ entries = << >> /\ valid = << >>
    /\ result = "none" /\ copyFailed = FALSE /\ loaded = NotLoaded /\ ops = 0

\* the values of the variables of the single run before anything happened
NoHtml == [pagecount |-> 0, elems |-> << >>]
NoFetch == [fpc |-> "idle", attempt |-> 0, nreq |-> 0, slept |-> << >>, wait_time |-> 0,
            last |-> "none", ret |-> "pending", html |-> NoHtml]
NoWalk == [page_count |-> 0, page |-> 0, walked |-> << >>, all_entries |-> << >>]
NoMetadata == [total_pages |-> 0, successful_pages |-> 0, failed_pages |-> 0,
               partial_scrape |-> FALSE]
NoVResult == [valid |-> << >>, errors |-> << >>]
NoPrevious == [called |-> FALSE, state |-> EmptyState, log |-> "", from |-> 0]
NoOutput == [shape |-> "none", entries |-> << >>, diff |-> NoDiff, metadata |-> NoMetadata]
NoConfig == [state_file |-> FALSE, diff_only |-> FALSE, url_ok |-> TRUE]

\* DataManager.diff was not called
NoDm == [dpc |-> "off", old_data |-> << >>, new_data |-> << >>, old_map |-> << >>,
         k |-> 0, diffs |-> << >>, ret |-> << >>]
\* a path that names no file, and the files of a first run
NoFile == [exists |-> FALSE, text |-> << >>]
\* (debug: whether the directory of the debug copies exists)
NoFiles == [data |-> NoFile, diff |-> NoFile, interrupted |-> NoFile, debug |-> 0]
NoMain == [pc |-> "off", run |-> 0, old_data |-> << >>, new_data |-> << >>,
           diff |-> << >>, raised |-> "none", at_load |-> NoFiles, saved |-> << >>]
NoScrape == [pc |-> "off", initial |-> "none", last_page |-> 0, current_page |-> 0,
             entries |-> << >>, visited |-> << >>, raised |-> FALSE]
MainIdle == vfiles = NoFiles /\ vmain = NoMain /\ scr = NoScrape
\* the legacy scraper does not run
NoLegacy == [pc |-> "off", thread |-> << >>, failures |-> 0, metadata |-> {},
             updates |-> {}, page |-> 0, metadata_file |-> {}, output_file |-> << >>]
VariantIdle == dm = NoDm /\ MainIdle /\ lg = NoLegacy

PipeIdle ==
    /\ mpc = "off" /\ config = NoConfig /\ fetch = NoFetch /\ walk = NoWalk
    /\ metadata = NoMetadata /\ vresult = NoVResult /\ previous = NoPrevious
    /\ diff = NoDiff /\ emitted = NoOutput /\ exit_status = -1 /\ fs0 = EmptyFs

InitStore ==
    /\ fs \in {EmptyFs, FullFs}
    /\ pre = fs
    /\ StoreIdle
    /\ LockIdle
    /\ PipeIdle
    /\ VariantIdle

\* ----------------------------------------------------- save_state_atomic
\* main calls save_state_atomic(valid_entries, state_file)
SaveBegin(b, p) ==
    /\ spc = "idle" /\ ops < MaxOps
    /\ spc' = "validate" /\ entries' = b /\ pid' = p /\ pre' = fs
    /\ valid' = << >> /\ result' = "running" /\ copyFailed' = FALSE
    /\ loaded' = NotLoaded /\ ops' = ops + 1 /\ i' = 0
    /\ UNCHANGED fs
    /\ UNCHANGED <<lockVars, pipeVars, variantVars>>

\* mutant: the empty check is missing
NoValidEntries_Never(valid_entries) == FALSE
\* `if not valid_entries: return False`
NoValidEntries(valid_entries) == valid_entries = << >>

\* validate_entries, the empty check, and the exists() test of rotate_backups
SaveValidate ==
    /\ spc = "validate"
    /\ valid' = validate_entries(entries).valid
    /\ IF NoValidEntries(valid')
       THEN spc' = "idle" /\ result' = "false" /\ i' = 0
       ELSE IF ~Exists(fs.primary)
       THEN spc' = "tmp_open" /\ result' = result /\ i' = 0
       ELSE spc' = "rotate" /\ result' = result /\ i' = RotateFrom
    /\ UNCHANGED <<fs, pid, entries, pre, copyFailed, loaded, ops>>
    /\ UNCHANGED <<lockVars, pipeVars, variantVars>>

\* one iteration of `for i in range(STATE_BACKUP_COUNT - 1, 0, -1)`
RotateStep ==
    /\ spc = "rotate"
    /\ fs' = RotateIteration(fs, i)
    /\ i' = i - 1
    /\ spc' = IF i = 1 THEN "copy_open" ELSE "rotate"
    /\ UNCHANGED <<pid, entries, valid, pre, result, copyFailed, loaded>>
    /\ UNCHANGED ops
    /\ UNCHANGED <<lockVars, pipeVars, variantVars>>

\* old_backup.rename raises: the exception leaves rotate_backups and reaches
\* the except clause of save_state_atomic
RotateFail ==
    /\ spc = "rotate" /\ Exists(fs.backup[i])
    /\ spc' = "cleanup"
    /\ UNCHANGED <<fs, i, pid, entries, valid, pre, result, copyFailed, loaded, ops>>
    /\ UNCHANGED <<lockVars, pipeVars, variantVars>>

CopyOpen ==
    /\ spc = "copy_open"
    /\ fs' = CopyOpenDst(fs)
    /\ spc' = "copy_write"
    /\ UNCHANGED <<i, pid, entries, valid, pre, result, copyFailed, loaded, ops>>
    /\ UNCHANGED <<lockVars, pipeVars, variantVars>>

CopyWrite ==
    /\ spc = "copy_write"
    /\ fs' = CopyBytes(fs)
    /\ spc' = "tmp_open"
    /\ UNCHANGED <<i, pid, entries, valid, pre, result, copyFailed, loaded, ops>>
    /\ UNCHANGED <<lockVars, pipeVars, variantVars>>

\* shutil.copy2 raises: rotate_backups prints a warning and returns normally
CopyFail ==
    /\ spc \in {"copy_open", "copy_write"}
    /\ fs' = IF spc = "copy_write" THEN CopyTorn(fs) ELSE fs
    /\ copyFailed' = TRUE
    /\ spc' = "tmp_open"
    /\ UNCHANGED <<i, pid, entries, valid, pre, result, loaded, ops>>
    /\ UNCHANGED <<lockVars, pipeVars, variantVars>>

\* mutant: a temp file found under the run's name is taken as written
TmpOpen_Resume ==
    /\ spc = "tmp_open"
    /\ IF Exists(fs.tmp[pid])
       THEN fs' = fs /\ spc' = "rename"
       ELSE fs' = OpenTemp(fs, pid) /\ spc' = "tmp_write"
    /\ UNCHANGED <<i, pid, entries, valid, pre, result, copyFailed, loaded, ops>>
    /\ UNCHANGED <<lockVars, pipeVars, variantVars>>

\* with open(temp_file, 'w', ...) as f
TmpOpen ==
    /\ spc = "tmp_open"
    /\ fs' = OpenTemp(fs, pid)
    /\ spc' = "tmp_write"
    /\ UNCHANGED <<i, pid, entries, valid, pre, result, copyFailed, loaded, ops>>
    /\ UNCHANGED <<lockVars, pipeVars, variantVars>>

TmpWrite ==
    /\ spc = "tmp_write"
    /\ fs' = WriteTemp(fs, pid, valid)
    /\ spc' = "rename"
    /\ UNCHANGED <<i, pid, entries, valid, pre, result, copyFailed, loaded, ops>>
    /\ UNCHANGED <<lockVars, pipeVars, variantVars>>

\* open, json.dump, flush or fsync raises
TmpFail ==
    /\ spc \in {"tmp_open", "tmp_write"}
    /\ fs' = IF spc = "tmp_write" THEN TornTemp(fs, pid) ELSE fs
    /\ spc' = "cleanup"
    /\ UNCHANGED <<i, pid, entries, valid, pre, result, copyFailed, loaded, ops>>
    /\ UNCHANGED <<lockVars, pipeVars, variantVars>>

\* os.rename(temp_file, state_file), then `return True`
Rename ==
    /\ spc = "rename"
    /\ fs' = RenameTemp(fs, pid)
    /\ spc' = "idle" /\ result' = "true"
    /\ UNCHANGED <<i, pid, entries, valid, pre, copyFailed, loaded, ops>>
    /\ UNCHANGED <<lockVars, pipeVars, variantVars>>

RenameFail ==
    /\ spc = "rename"
    /\ spc' = "cleanup"
    /\ UNCHANGED <<fs, i, pid, entries, valid, pre, result, copyFailed, loaded, ops>>
    /\ UNCHANGED <<lockVars, pipeVars, variantVars>>

\* the except clause: unlink the temp file (errors swallowed), `return False`
Cleanup ==
    /\ spc = "cleanup"
    /\ fs' \in {UnlinkTemp(fs, pid), fs}
    /\ spc' = "idle" /\ result' = "false"
    /\ UNCHANGED <<i, pid, entries, valid, pre, copyFailed, loaded, ops>>
    /\ UNCHANGED <<lockVars, pipeVars, variantVars>>

\* the process is killed before its next file operation
Crash ==
    /\ spc \notin {"idle", "validate"}
    /\ spc' = "idle" /\ result' = "crashed"
    /\ UNCHANGED <<fs, i, pid, entries, valid, pre, copyFailed, loaded, ops>>
    /\ UNCHANGED <<lockVars, pipeVars, variantVars>>

\* load_state(state_file), called by the next run
Load ==
    /\ spc = "idle" /\ ~loaded.done
    /\ loaded' = [done |-> TRUE] @@ load_state(fs)
    /\ UNCHANGED <<fs, spc, i, pid, entries, valid, pre, result, copyFailed, ops>>
    /\ UNCHANGED <<lockVars, pipeVars, variantVars>>

\* damage from outside the program: a file that exists is truncated,
\* replaced by other JSON, or has records damaged
Damaged == {Partial, NonList, json_dump(<<EMiss, EC>>), json_dump(<<EScalar, EA>>)}

Corrupt(slot, c) ==
    /\ spc = "idle" /\ ops < MaxOps
    /\ IF slot = 0
       THEN Exists(fs.primary) /\ fs' = [fs EXCEPT !.primary = c]
       ELSE Exists(fs.backup[slot]) /\ fs' = [fs EXCEPT !.backup = [@ EXCEPT ![slot] = c]]
    /\ fs' # fs
    /\ result' = "none" /\ loaded' = NotLoaded /\ ops' = ops + 1 /\ pre' = fs'
    /\ UNCHANGED <<spc, i, pid, entries, valid, copyFailed>>
    /\ UNCHANGED <<lockVars, pipeVars, variantVars>>

NextStore ==
    \/ \E b \in Batches, p \in Pids : SaveBegin(b, p)
    \/ SaveValidate
    \/ RotateStep
    \/ RotateFail
    \/ CopyOpen
    \/ CopyWrite
    \/ CopyFail
    \/ TmpOpen
    \/ TmpWrite
    \/ TmpFail
    \/ Rename
    \/ RenameFail
    \/ Cleanup
    \/ Crash
    \/ Load
    \/ \E slot \in 0..STATE_BACKUP_COUNT, c \in Damaged : Corrupt(slot, c)

vars == <<fs, storeVars, lockVars, pipeVars, variantVars>>

SpecStore == InitStore /\ [][NextStore]_vars

\* ------------------------------------------------- save, as one operation
RECURSIVE RotateLoop(_, _)
RotateLoop(f, n) == IF n = 0 THEN f ELSE RotateLoop(RotateIteration(f, n), n - 1)

\* rotate_backups without an I/O error
rotate_backups(f) ==
    IF ~Exists(f.primary) THEN f
    ELSE CopyBytes(CopyOpenDst(RotateLoop(f, RotateFrom)))

\* save_state_atomic returning True
save_state_atomic(f, valid_entries, p) ==
    RenameTemp(WriteTemp(OpenTemp(rotate_backups(f), p), p, valid_entries), p)

\* the files after save_state_atomic returned False on an I/O error while
\* writing the temp file: the backups rotated, the temp file removed
SaveFailed(f) == rotate_backups(f)

\* ------------------------------------------------------ acquire_lock, main
\* what scrape_all_pages can return as current_entries
ScrapeResults == { << >>, <<ENoId>>, <<EA, EB>> }

\* the process holds the flock on the file it opened
Holds(p) == fd[p] # 0 /\ flockOwner[fd[p]] = p

\* finally: fcntl.flock(lock_fd.fileno(), LOCK_UN); lock_fd.close()
Unlock(p) ==
    /\ flockOwner' = IF Holds(p) THEN [flockOwner EXCEPT ![fd[p]] = 0] ELSE flockOwner
    /\ fd' = [fd EXCEPT ![p] = 0]

\* sys.exit(code): SystemExit unwinds to the finally clause of acquire_lock,
\* which unlocks and closes lock_fd; the unlink is the next step
SysExit(p, code, out) ==
    /\ exitCode' = [exitCode EXCEPT ![p] = code]
    /\ outcome' = [outcome EXCEPT ![p] = out]
    /\ Unlock(p)
    /\ run' = [run EXCEPT ![p] = NoRun]
    /\ ppc' = [ppc EXCEPT ![p] = "unlink"]

\* parse_args returns None: usage, sys.exit(1) before any lock
Usage(p) ==
    /\ ppc[p] = "start"
    /\ ppc' = [ppc EXCEPT ![p] = "exited"]
    /\ exitCode' = [exitCode EXCEPT ![p] = 1]
    /\ outcome' = [outcome EXCEPT ![p] = "failure"]
    /\ UNCHANGED <<fs, storeVars, pipeVars, variantVars, fd, lockPath, flockOwner, lockText, nextInode, run>>

\* lock_fd = open(lock_path, 'w'): creates the file or truncates the one there
OpenLock(p) ==
    /\ ppc[p] = "start"
    /\ LET n == IF lockPath = 0 THEN nextInode ELSE lockPath IN
         /\ fd' = [fd EXCEPT ![p] = n]
         /\ lockPath' = n
         /\ lockText' = [lockText EXCEPT ![n] = 0]
         /\ nextInode' = IF lockPath = 0 THEN nextInode + 1 ELSE nextInode
    /\ ppc' = [ppc EXCEPT ![p] = "flock"]
    /\ UNCHANGED <<fs, storeVars, pipeVars, variantVars, flockOwner, run, exitCode, outcome>>

\* mutant: the IOError is swallowed and the run goes on without the lock
FlockBusy_Proceed(p) ==
    /\ ppc' = [ppc EXCEPT ![p] = "scrape"]
    /\ UNCHANGED <<exitCode, outcome, fd, flockOwner, run, lockText>>

\* flock raised IOError: the two messages, then sys.exit(2)
FlockBusy(p) ==
    /\ SysExit(p, 2, "already_running")
    /\ UNCHANGED lockText

\* flock succeeded: lock_fd.write(str(os.getpid())); lock_fd.flush(); yield
FlockGranted(p) ==
    /\ flockOwner' = [flockOwner EXCEPT ![fd[p]] = p]
    /\ lockText' = [lockText EXCEPT ![fd[p]] = p]
    /\ ppc' = [ppc EXCEPT ![p] = "scrape"]
    /\ UNCHANGED <<fd, run, exitCode, outcome>>

\* the flock on the inode behind lock_fd is held by another open file
Busy(p) == flockOwner[fd[p]] \notin {0, p}

\* fcntl.flock(lock_fd.fileno(), LOCK_EX | LOCK_NB)
Flock(p) ==
    /\ ppc[p] = "flock"
    /\ IF Busy(p) THEN FlockBusy(p) ELSE FlockGranted(p)
    /\ UNCHANGED <<fs, storeVars, pipeVars, variantVars, lockPath, nextInode>>

\* scrape_all_pages, the `if not current_entries` exit, validate_entries and
\* the `if not valid_entries` exit
Scrape(p, current_entries, partial_scrape) ==
    /\ ppc[p] = "scrape"
    /\ LET valid_entries == validate_entries(current_entries).valid IN
         IF current_entries = << >> \/ valid_entries = << >>
         THEN SysExit(p, 1, "failure")
         ELSE /\ run' = [run EXCEPT ![p] = [valid |-> valid_entries,
                                            partial |-> partial_scrape]]
              /\ ppc' = [ppc EXCEPT ![p] = "persist"]
              /\ UNCHANGED <<fd, flockOwner, exitCode, outcome>>
    /\ UNCHANGED <<fs, storeVars, pipeVars, variantVars, lockPath, lockText, nextInode>>

\* load_state, compute_diff and save_state_atomic; `sys.exit(1)` when the
\* save returns False
Persist(p) ==
    /\ ppc[p] = "persist"
    /\ \/ /\ fs' = save_state_atomic(fs, run[p].valid, p)
          /\ ppc' = [ppc EXCEPT ![p] = "output"]
          /\ run' = [run EXCEPT ![p].valid = << >>]
          /\ UNCHANGED <<fd, flockOwner, exitCode, outcome>>
       \/ /\ fs' = SaveFailed(fs)
          /\ SysExit(p, 1, "failure")
    /\ UNCHANGED <<storeVars, pipeVars, variantVars, lockPath, lockText, nextInode>>

\* write_output, then sys.exit(1), sys.exit(2) or sys.exit(0)
Output(p) ==
    /\ ppc[p] = "output"
    /\ \/ SysExit(p, 1, "failure")
       \/ IF run[p].partial THEN SysExit(p, 2, "partial") ELSE SysExit(p, 0, "success")
    /\ UNCHANGED <<fs, storeVars, pipeVars, variantVars, lockPath, lockText, nextInode>>

\* finally: lock_path.unlink(missing_ok=True), then the process ends
Unlink(p) ==
    /\ ppc[p] = "unlink"
    /\ lockPath' = 0
    /\ ppc' = [ppc EXCEPT ![p] = "exited"]
    /\ UNCHANGED <<fs, storeVars, pipeVars, variantVars, fd, flockOwner, lockText, nextInode, run, exitCode, outcome>>

\* after two successful runs: the primary and one backup
SeedFs == [EmptyFs EXCEPT !.primary = json_dump(<<EB, EC>>),
                          !.backup = [@ EXCEPT ![1] = json_dump(<<EC>>)]]

Init ==
    /\ fs = SeedFs
    /\ pre = fs
    /\ StoreIdle
    /\ LockIdle
    /\ PipeIdle
    /\ VariantIdle

Next ==
    \E p \in Procs :
        \/ Usage(p)
        \/ OpenLock(p)
        \/ Flock(p)
        \/ \E b \in ScrapeResults, part \in BOOLEAN : Scrape(p, b, part)
        \/ Persist(p)
        \/ Output(p)
        \/ Unlink(p)

Spec == Init /\ [][Next]_vars

\* ------------------------------------- validate_entries and compute_diff
\* batches handed to validate_entries: the thread observed at different
\* times, with duplicates and with records of a wrong structure
PureBatches ==
    { <<EA, EC2, E4, E5>>, <<EA, EC>>, <<EATs, EC>>, <<EA, EB>>, <<ENoId, EMiss>>,
      <<ENotStrId, ENotStrContent, ENoAuthor, E4>>, <<EC, EA, EC2, E3>>, << >> }

\* previous states handed to compute_diff
PureStates ==
    { EmptyState, DictById(<<EA, EC, E3>>, EmptyState), DictById(<<EA, EC>>, EmptyState),
      DictById(<<EB>>, EmptyState), DictById(<<EATs, E4, E5>>, EmptyState) }

\* capture times of extract_entry: datetime.now().isoformat()
ScrapeTimes == {"t0", "t1"}

\* the same records extracted again at another time: only scraped_at changes
Reobserve(observed, now) ==
    [n \in DOMAIN observed |-> [observed[n] EXCEPT !.scraped_at = now]]

InitPure ==
    /\ fs = EmptyFs
    /\ pre = fs
    /\ StoreIdle
    /\ LockIdle
    /\ mpc = "p_in"
    /\ \E b \in PureBatches : walk = [NoWalk EXCEPT !.all_entries = b]
    /\ \E st \in PureStates :
           previous = [called |-> TRUE, state |-> st, log |-> "primary", from |-> 0]
    /\ config = NoConfig /\ fetch = NoFetch /\ metadata = NoMetadata
    /\ vresult = NoVResult /\ diff = NoDiff /\ emitted = NoOutput
    /\ exit_status = -1 /\ fs0 = fs
    /\ VariantIdle

\* valid_entries, validation_errors = validate_entries(current_entries)
PureValidate ==
    /\ mpc \in {"p_in", "p_in2"}
    /\ vresult' = validate_entries(walk.all_entries)
    /\ mpc' = IF mpc = "p_in" THEN "p_valid" ELSE "p_valid2"
    /\ UNCHANGED <<fs, storeVars, lockVars, variantVars>>
    /\ UNCHANGED <<config, fetch, walk, metadata, previous, diff, emitted, exit_status, fs0>>

\* diff = compute_diff(valid_entries, previous_state)
PureDiff ==
    /\ mpc \in {"p_valid", "p_valid2"}
    /\ diff' = compute_diff(vresult.valid, previous.state)
    /\ mpc' = IF mpc = "p_valid" THEN "p_diff" ELSE "p_diff2"
    /\ UNCHANGED <<fs, storeVars, lockVars, variantVars>>
    /\ UNCHANGED <<config, fetch, walk, metadata, vresult, previous, emitted, exit_status, fs0>>

\* the batch is saved, the next run loads it and observes the same records
PureReobserve(now) ==
    /\ mpc = "p_diff"
    /\ previous' = [called |-> TRUE] @@ load_state(save_state_atomic(EmptyFs, vresult.valid, 1))
    /\ walk' = [walk EXCEPT !.all_entries = Reobserve(vresult.valid, now)]
    /\ vresult' = NoVResult /\ diff' = NoDiff
    /\ mpc' = "p_in2"
    /\ UNCHANGED <<fs, storeVars, lockVars, variantVars>>
    /\ UNCHANGED <<config, fetch, metadata, emitted, exit_status, fs0>>

NextPure ==
    \/ PureValidate
    \/ PureDiff
    \/ \E now \in ScrapeTimes : PureReobserve(now)

SpecPure == InitPure /\ [][NextPure]_vars

\* --------------------------------------------- the pipeline of one run
\* values of data-pagecount on the pager of the first page
PageCounts == 1..MaxPages

\* the li elements with a data-id attribute a page of the thread can carry
PageElems == { << >>, <<EA>>, <<EB, EC>>, <<ENoId>> }

\* what one requests.get + raise_for_status can end with. Every exception of
\* requests (Timeout, ConnectionError, HTTPError, InvalidURL, MissingSchema)
\* derives from RequestException: "transient" stands for a timeout, a
\* connection error or a server error, "invalid_url" for a malformed target,
\* which fails the same way on every request. "empty_body" is a 200 response
\* whose text is the empty string.
Responses(stage, url_ok) ==
    IF ~url_ok THEN { [kind |-> "invalid_url", html |-> NoHtml] }
    ELSE { [kind |-> "transient", html |-> NoHtml], [kind |-> "empty_body", html |-> NoHtml] }
         \cup { [kind |-> "ok", html |-> h] :
                  h \in IF stage = "discover"
                        THEN { [pagecount |-> c, elems |-> << >>] : c \in PageCounts }
                        ELSE { [pagecount |-> 1, elems |-> e] : e \in PageElems } }

\* wait_time = RETRY_BACKOFF_BASE ** attempt
WaitTime(attempt) == RETRY_BACKOFF_BASE ^ attempt

\* `if attempt < max_retries - 1`
MayRetry(attempt) == attempt < MAX_RETRIES - 1

\* fetch_html_with_retry is entered: attempt = 0
FetchStart == [NoFetch EXCEPT !.fpc = "request"]

\* `return response.text`
RequestOk(f, kind, html) ==
    [f EXCEPT !.nreq = @ + 1, !.last = kind, !.fpc = "returned",
              !.ret = IF kind = "empty_body" THEN "empty" ELSE "text",
              !.html = html]

\* mutant: an exception that is no transient failure is raised to the caller
RequestRaised_Reraise(f, kind) ==
    IF kind # "transient"
    THEN [f EXCEPT !.nreq = @ + 1, !.last = kind, !.fpc = "returned", !.ret = "raised"]
    ELSE IF MayRetry(f.attempt)
    THEN [f EXCEPT !.nreq = @ + 1, !.last = kind, !.wait_time = WaitTime(f.attempt),
                   !.fpc = "sleep"]
    ELSE [f EXCEPT !.nreq = @ + 1, !.last = kind, !.wait_time = WaitTime(f.attempt),
                   !.fpc = "returned", !.ret = "None"]
\* `except requests.exceptions.RequestException`: sleep and retry, or give up
RequestRaised(f, kind) ==
    IF MayRetry(f.attempt)
    THEN [f EXCEPT !.nreq = @ + 1, !.last = kind, !.wait_time = WaitTime(f.attempt),
                   !.fpc = "sleep"]
    ELSE [f EXCEPT !.nreq = @ + 1, !.last = kind, !.wait_time = WaitTime(f.attempt),
                   !.fpc = "returned", !.ret = "None"]

\* time.sleep(wait_time), then the next value of `attempt`; when the range is
\* used up the loop is left and the last line returns None
Slept(f) ==
    IF f.attempt < MAX_RETRIES - 1
    THEN [f EXCEPT !.slept = Append(@, f.wait_time), !.attempt = @ + 1, !.fpc = "request"]
    ELSE [f EXCEPT !.slept = Append(@, f.wait_time), !.fpc = "returned", !.ret = "None"]

\* `if not html`: None or the empty string
NotHtml(f) == f.ret # "text"

\* extract_entry returns None for an element whose data-id is empty
extract_entries_from_page(html) == SelectSeq(html.elems, LAMBDA elem : elem.id # "")

\* the urls as page parameters: 0 is base_url itself, n is base_url?p=n
build_page_urls(page_count) ==
    IF page_count = 1 THEN <<0>> ELSE [page \in 1..page_count |-> page]

\* the state files a run can find: none, a primary with one backup, and a
\* damaged primary whose backups are damaged too
BrokenFs == [EmptyFs EXCEPT !.primary = Partial,
                            !.backup = [@ EXCEPT ![1] = Partial, ![2] = NonList]]
PipeFiles == {EmptyFs, SeedFs, BrokenFs}

\* the lock when the run starts: the lock file does not exist, or another
\* scraper (process 2) is inside its pipeline and holds it
LockFree ==
    /\ fd = [p \in Procs |-> 0]
    /\ lockPath = 0
    /\ flockOwner = [n \in Inodes |-> 0]
    /\ lockText = [n \in Inodes |-> 0]
    /\ nextInode = 1
LockTaken ==
    /\ fd = [p \in Procs |-> IF p = 2 THEN 1 ELSE 0]
    /\ lockPath = 1
    /\ flockOwner = [n \in Inodes |-> IF n = 1 THEN 2 ELSE 0]
    /\ lockText = [n \in Inodes |-> IF n = 1 THEN 2 ELSE 0]
    /\ nextInode = 2

\* the run is process 1; without --state there is no lock file and main is
\* inside the `with` block at once
InitPipeline ==
    /\ fs \in PipeFiles
    /\ pre = fs
    /\ StoreIdle
    /\ config \in [state_file : BOOLEAN, diff_only : BOOLEAN, url_ok : BOOLEAN]
    /\ IF config.state_file
       THEN /\ LockFree \/ LockTaken
            /\ ppc = [p \in Procs |-> IF p = 2 /\ lockPath = 1 THEN "scrape" ELSE "start"]
       ELSE /\ LockFree
            /\ ppc = [p \in Procs |-> IF p = 1 THEN "scrape" ELSE "start"]
    /\ run = [p \in Procs |-> NoRun]
    /\ exitCode = [p \in Procs |-> -1]
    /\ outcome = [p \in Procs |-> "running"]
    /\ mpc = "discover"
    /\ fetch = FetchStart
    /\ walk = NoWalk /\ metadata = NoMetadata /\ vresult = NoVResult
    /\ previous = NoPrevious /\ diff = NoDiff /\ emitted = NoOutput
    /\ exit_status = -1 /\ fs0 = fs
    /\ VariantIdle

\* response = requests.get(...); response.raise_for_status()
Request(r) ==
    /\ ppc[1] = "scrape"
    /\ mpc \in {"discover", "walk"} /\ fetch.fpc = "request"
    /\ r \in Responses(mpc, config.url_ok)
    /\ fetch' = IF r.kind \in {"ok", "empty_body"}
                THEN RequestOk(fetch, r.kind, r.html)
                ELSE RequestRaised(fetch, r.kind)
    /\ UNCHANGED <<fs, storeVars, lockVars, variantVars>>
    /\ UNCHANGED <<mpc, config, walk, metadata, vresult, previous, diff, emitted,
                   exit_status, fs0>>

Sleep ==
    /\ mpc \in {"discover", "walk"} /\ fetch.fpc = "sleep"
    /\ fetch' = Slept(fetch)
    /\ UNCHANGED <<fs, storeVars, lockVars, variantVars>>
    /\ UNCHANGED <<mpc, config, walk, metadata, vresult, previous, diff, emitted,
                   exit_status, fs0>>

\* scrape_all_pages after the first fetch: without html it returns no
\* entries and main calls sys.exit(1); with html it reads the page count,
\* builds the urls and enters the loop
Discover ==
    /\ mpc = "discover" /\ fetch.fpc = "returned"
    /\ IF NotHtml(fetch)
       THEN /\ mpc' = "exited" /\ exit_status' = 1
            /\ UNCHANGED <<fetch, walk, metadata>>
       ELSE /\ metadata' = [metadata EXCEPT !.total_pages = fetch.html.pagecount]
            /\ walk' = [NoWalk EXCEPT !.page_count = fetch.html.pagecount, !.page = 1]
            /\ fetch' = FetchStart
            /\ mpc' = "walk" /\ exit_status' = exit_status
    /\ UNCHANGED <<fs, storeVars, lockVars, variantVars>>
    /\ UNCHANGED <<config, vresult, previous, diff, emitted, fs0>>

\* mutant: the loop is left at the first failed page
WalkEnds_AtFailure(success, last) == last \/ ~success
\* the loop over urls ends after its last url, whatever scrape_page returned
WalkEnds(success, last) == last

CountPage_SuccessOnly(md, success) ==
    IF success THEN [md EXCEPT !.successful_pages = @ + 1] ELSE md

\* metadata['successful_pages'] += 1, or metadata['failed_pages'] += 1
CountPage(md, success) ==
    IF success THEN [md EXCEPT !.successful_pages = @ + 1]
               ELSE [md EXCEPT !.failed_pages = @ + 1]

\* one iteration of `for i, url in enumerate(urls, 1)` once scrape_page
\* returned; after the last one partial_scrape is set
PageDone ==
    /\ mpc = "walk" /\ fetch.fpc = "returned"
    /\ LET success == ~NotHtml(fetch)
           found == IF success THEN extract_entries_from_page(fetch.html) ELSE << >>
           urls == build_page_urls(walk.page_count)
           md == CountPage(metadata, success)
           last == WalkEnds(success, walk.page = Len(urls))
       IN /\ walk' = [walk EXCEPT !.all_entries = @ \o found,
                                  !.walked = Append(@, [url |-> urls[walk.page],
                                                        success |-> success,
                                                        found |-> found]),
                                  !.page = @ + 1]
          /\ metadata' = IF last THEN [md EXCEPT !.partial_scrape = md.failed_pages > 0]
                                 ELSE md
          /\ fetch' = IF last THEN NoFetch ELSE FetchStart
          /\ mpc' = IF last THEN "validate" ELSE "walk"
    /\ UNCHANGED <<fs, storeVars, lockVars, variantVars>>
    /\ UNCHANGED <<config, vresult, previous, diff, emitted, exit_status, fs0>>

\* mutant: the two emptiness checks are missing
AfterValidate_NoChecks(cfg, current_entries, valid_entries) ==
    [pc |-> IF cfg.state_file THEN "load" ELSE "output", status |-> -1]
\* `if not current_entries: sys.exit(1)`, `if not valid_entries: sys.exit(1)`,
\* `if state_file`
AfterValidate(cfg, current_entries, valid_entries) ==
    IF current_entries = << >> THEN [pc |-> "exited", status |-> 1]
    ELSE IF valid_entries = << >> THEN [pc |-> "exited", status |-> 1]
    ELSE [pc |-> IF cfg.state_file THEN "load" ELSE "output", status |-> -1]

\* the checks of main around validate_entries
Validate ==
    /\ mpc = "validate"
    /\ LET res == validate_entries(walk.all_entries)
           then == AfterValidate(config, walk.all_entries, res.valid)
       IN /\ vresult' = IF walk.all_entries = << >> THEN vresult ELSE res
          /\ mpc' = then.pc /\ exit_status' = then.status
    /\ UNCHANGED <<fs, storeVars, lockVars, variantVars>>
    /\ UNCHANGED <<config, fetch, walk, metadata, previous, diff, emitted, fs0>>

\* mutant: the diff is computed on a first run too
AfterLoad_AlwaysDiff(previous_state) == "diff"
\* `if previous_state:` an empty dict is a first run, which skips the diff
AfterLoad(previous_state) == IF previous_state # EmptyState THEN "diff" ELSE "save"

\* previous_state = load_state(state_file); `if previous_state`
LoadState ==
    /\ mpc = "load"
    /\ previous' = [called |-> TRUE] @@ load_state(fs)
    /\ mpc' = AfterLoad(previous'.state)
    /\ UNCHANGED <<fs, storeVars, lockVars, variantVars>>
    /\ UNCHANGED <<config, fetch, walk, metadata, vresult, diff, emitted, exit_status, fs0>>

AfterDiff_KeepStateWhenPartial(md) == IF md.partial_scrape THEN "output" ELSE "save"

\* after the diff summary main saves the state, whatever metadata says
AfterDiff(md) == "save"

\* diff = compute_diff(valid_entries, previous_state)
ComputeDiff ==
    /\ mpc = "diff"
    /\ diff' = compute_diff(vresult.valid, previous.state)
    /\ mpc' = AfterDiff(metadata)
    /\ UNCHANGED <<fs, storeVars, lockVars, variantVars>>
    /\ UNCHANGED <<config, fetch, walk, metadata, vresult, previous, emitted,
                   exit_status, fs0>>

\* mutant: a failed save is reported and the run goes on
SaveFailedExit_GoOn == [pc |-> "output", status |-> -1]
\* `if not save_state_atomic(...): sys.exit(1)`
SaveFailedExit == [pc |-> "exited", status |-> 1]

\* save_state_atomic(valid_entries, state_file) returns True, or returns
\* False after an I/O error before or after the rotation
Save ==
    /\ mpc = "save"
    /\ \/ /\ fs' = save_state_atomic(fs, vresult.valid, 1)
          /\ result' = "true"
          /\ mpc' = "output" /\ exit_status' = exit_status
       \/ /\ fs' \in {SaveFailed(fs), fs}
          /\ result' = "false"
          /\ mpc' = SaveFailedExit.pc /\ exit_status' = SaveFailedExit.status
    /\ UNCHANGED <<spc, i, pid, entries, valid, pre, copyFailed, loaded, ops>>
    /\ UNCHANGED <<lockVars, variantVars>>
    /\ UNCHANGED <<config, fetch, walk, metadata, vresult, previous, diff, emitted, fs0>>

\* output_data as main builds it in its three branches
output_data(cfg, valid_entries, previous_state, d, md) ==
    IF ~cfg.state_file
    THEN [shape |-> "entries", entries |-> valid_entries, diff |-> NoDiff, metadata |-> md]
    ELSE IF previous_state = EmptyState
    THEN [shape |-> "entries_diff", entries |-> valid_entries, diff |-> NoDiff,
          metadata |-> md]
    ELSE IF cfg.diff_only
    THEN [shape |-> "diff_only", entries |-> << >>, diff |-> d, metadata |-> md]
    ELSE [shape |-> "entries_diff", entries |-> valid_entries, diff |-> d, metadata |-> md]

\* mutant: a partial scrape ends like a complete one
FinalStatus_AlwaysZero(md) == 0
\* `if metadata['partial_scrape']: sys.exit(2)`, else sys.exit(0)
FinalStatus(md) == IF md.partial_scrape THEN 2 ELSE 0

OutputFailed_LikeWritten(md) == FinalStatus(md)

\* `if not write_output(json_output, output_file): sys.exit(1)`
OutputFailed(md) == 1

\* write_output(format_json(output_data)), then sys.exit(1) when it failed,
\* sys.exit(2) after a partial scrape, sys.exit(0) otherwise
WriteOutput ==
    /\ mpc = "output"
    /\ \/ /\ emitted' = output_data(config, vresult.valid, previous.state, diff, metadata)
          /\ exit_status' = FinalStatus(metadata)
       \/ /\ emitted' = emitted
          /\ exit_status' = OutputFailed(metadata)
    /\ mpc' = "exited"
    /\ UNCHANGED <<fs, storeVars, lockVars, variantVars>>
    /\ UNCHANGED <<config, fetch, walk, metadata, vresult, previous, diff, fs0>>

\* mutant: a failure of the release turns the run into a failed one
AfterRelease_Escalate(status, clean) == IF clean THEN status ELSE 1
\* `except Exception as e: print(...)`: the failure is printed, SystemExit
\* goes on with the code main gave it
AfterRelease(status, clean) == status

\* sys.exit of main unwinds through the finally clause of acquire_lock:
\* LOCK_UN, close and unlink; when one of them raises, the rest is skipped
\* and a warning is printed. The process then ends, which closes lock_fd
\* and so drops its flock in any case. Without --state there is no lock.
Release(clean) ==
    /\ mpc = "exited" /\ ppc[1] = "scrape"
    /\ clean \/ fd[1] # 0
    /\ Unlock(1)
    /\ lockPath' = IF clean /\ fd[1] # 0 THEN 0 ELSE lockPath
    /\ ppc' = [ppc EXCEPT ![1] = IF clean THEN "exited" ELSE "release_failed"]
    /\ exitCode' = [exitCode EXCEPT ![1] = AfterRelease(exit_status, clean)]
    /\ UNCHANGED <<fs, storeVars, pipeVars, variantVars, lockText, nextInode, run, outcome>>

NextPipeline ==
    \/ OpenLock(1)
    \/ Flock(1)
    \/ Unlink(1)
    \/ \E clean \in BOOLEAN : Release(clean)
    \/ \E kind \in {"ok", "empty_body", "transient", "invalid_url"},
          h \in {NoHtml} \cup { [pagecount |-> c, elems |-> e] : c \in PageCounts, e \in PageElems } :
          Request([kind |-> kind, html |-> h])
    \/ Sleep
    \/ Discover
    \/ PageDone
    \/ Validate
    \/ LoadState
    \/ ComputeDiff
    \/ Save
    \/ WriteOutput

SpecPipeline == InitPipeline /\ [][NextPipeline]_vars

\* the run is scheduled until it ends: every request ends within
\* REQUEST_TIMEOUT, every sleep and every file operation returns
SpecPipelineLive == InitPipeline /\ [][NextPipeline]_vars /\ WF_vars(NextPipeline)

\* ------------------------------- the content-aware diff (DataManager.diff)
\* pieces of text that str.strip() removes
Whitespace == {" ", "\n"}

\* contents, as the sequence of their pieces
Storm == <<"a storm hit">>
StormUpdate == <<"a storm hit", ".", " ", "update: 5.8 magnitude">>
StormNew == <<"a storm hit", " ", "New content.">>
StormBlank == <<"a storm hit", " ", "\n">>
Different == <<"totally different text">>
NoText == << >>

\* Entry(id, author, timestamp, content, scraped_at)
EntryObj(id, content, timestamp) ==
    [id |-> id, author |-> "u", timestamp |-> timestamp, content |-> content,
     scraped_at |-> "t1"]

startswith_Never(s, prefix) == FALSE

\* entry.content.startswith(old_entry.content)
startswith(s, prefix) ==
    /\ Len(prefix) <= Len(s)
    /\ SubSeq(s, 1, Len(prefix)) = prefix

\* entry.content[len(old_entry.content):]
SliceFrom(s, n) == SubSeq(s, n + 1, Len(s))

RECURSIVE lstrip(_)
lstrip(s) ==
    IF s # << >> /\ Head(s) \in Whitespace THEN lstrip(Tail(s)) ELSE s

RECURSIVE rstrip(_)
rstrip(s) ==
    IF s # << >> /\ s[Len(s)] \in Whitespace THEN rstrip(SubSeq(s, 1, Len(s) - 1)) ELSE s

\* appended.strip()
strip(s) == rstrip(lstrip(s))

\* old_map = {entry.id: entry for entry in old_data}: the last entry of an id wins
RECURSIVE old_map_of(_, _)
old_map_of(old_data, acc) ==
    IF old_data = << >> THEN acc
    ELSE LET entry == Head(old_data)
         IN old_map_of(Tail(old_data),
                       [x \in DOMAIN acc \cup {entry.id} |->
                            IF x = entry.id THEN entry ELSE acc[x]])

DiffRecord(entry, type, content) ==
    [id |-> entry.id, type |-> type, content |-> content, timestamp |-> entry.timestamp]

DiffOf_WithTimestamp(old_map, entry) ==
    IF entry.id \notin DOMAIN old_map
    THEN <<DiffRecord(entry, "new", entry.content)>>
    ELSE LET old_entry == old_map[entry.id]
         IN IF entry.content # old_entry.content
            THEN IF startswith(entry.content, old_entry.content)
                 THEN LET appended == SliceFrom(entry.content, Len(old_entry.content))
                      IN IF strip(appended) # << >>
                         THEN <<DiffRecord(entry, "appended", appended)>>
                         ELSE << >>
                 ELSE <<DiffRecord(entry, "edited", entry.content)>>
            ELSE IF entry.timestamp # old_entry.timestamp
                 THEN <<DiffRecord(entry, "edited", entry.content)>>
                 ELSE << >>

\* one iteration of "for entry in new_data": the records it appends to diffs
DiffOf(old_map, entry) ==
    IF entry.id \notin DOMAIN old_map
    THEN <<DiffRecord(entry, "new", entry.content)>>
    ELSE LET old_entry == old_map[entry.id]
         IN IF entry.content # old_entry.content
            THEN IF startswith(entry.content, old_entry.content)
                 THEN LET appended == SliceFrom(entry.content, Len(old_entry.content))
                      IN IF strip(appended) # << >>
                         THEN <<DiffRecord(entry, "appended", appended)>>
                         ELSE << >>
                 ELSE <<DiffRecord(entry, "edited", entry.content)>>
            ELSE << >>

\* contents an entry can carry
Contents == {Storm, StormUpdate, StormNew, StormBlank, Different, NoText}

\* old_data = data_manager.load_data()
OldDatas ==
    { << >>,
      <<EntryObj("1", Storm, "10:00")>>,
      <<EntryObj("1", Storm, "10:00"), EntryObj("2", Different, "10:05")>>,
      <<EntryObj("1", NoText, "10:00")>> }

\* new_data = scraper.scrape()
NewDatas ==
    { <<EntryObj("1", c, "10:00")>> : c \in Contents }
        \cup { <<EntryObj("1", Storm, "10:01")>> }
        \cup { <<EntryObj("1", c, "10:01"), EntryObj("2", Storm, "10:05")>> : c \in Contents }

InitVariant ==
    /\ fs = EmptyFs
    /\ pre = fs
    /\ StoreIdle
    /\ LockIdle
    /\ PipeIdle
    /\ MainIdle /\ lg = NoLegacy
    /\ \E o \in OldDatas, n \in NewDatas :
           dm = [NoDm EXCEPT !.dpc = "called", !.old_data = o, !.new_data = n]

\* old_map = {...}; diffs = []
DiffBegin ==
    /\ dm.dpc = "called"
    /\ dm' = [dm EXCEPT !.dpc = "loop", !.old_map = old_map_of(dm.old_data, << >>),
                        !.k = 1, !.diffs = << >>]
    /\ UNCHANGED <<fs, storeVars, lockVars, pipeVars, mainVars, lg>>

\* the body of the loop for the k-th entry of new_data
DiffIterate ==
    /\ dm.dpc = "loop"
    /\ dm.k <= Len(dm.new_data)
    /\ dm' = [dm EXCEPT !.diffs = dm.diffs \o DiffOf(dm.old_map, dm.new_data[dm.k]),
                        !.k = dm.k + 1]
    /\ UNCHANGED <<fs, storeVars, lockVars, pipeVars, mainVars, lg>>

\* return diffs
DiffReturn ==
    /\ dm.dpc = "loop"
    /\ dm.k > Len(dm.new_data)
    /\ dm' = [dm EXCEPT !.dpc = "returned", !.ret = dm.diffs]
    /\ UNCHANGED <<fs, storeVars, lockVars, pipeVars, mainVars, lg>>

NextVariant ==
    \/ DiffBegin
    \/ DiffIterate
    \/ DiffReturn

SpecVariant == InitVariant /\ [][NextVariant]_vars

\* ------------------------------------ python-scraper: files (DataManager)
\* json.dumps escapes the quote and the control characters of a str and, with
\* ensure_ascii=False, writes every other character as it is
JsonEscape_Raw(piece) == piece

JsonEscape(piece) ==
    IF piece = "\n" THEN "\\n" ELSE IF piece = "\"" THEN "\\\"" ELSE piece

JsonUnescape(tok) ==
    IF tok = "\\n" THEN "\n" ELSE IF tok = "\\\"" THEN "\"" ELSE tok

\* a str value inside the JSON text
dumps_str(text) ==
    <<"\"">> \o [n \in DOMAIN text |-> JsonEscape(text[n])] \o <<"\"">>

RECURSIVE dumps_fields(_)
dumps_fields(fields) ==
    IF fields = << >> THEN << >>
    ELSE dumps_str(Head(fields))
             \o (IF Tail(fields) = << >> THEN << >> ELSE <<",">>)
             \o dumps_fields(Tail(fields))

\* json.dump(obj, f, ensure_ascii=False); f.write('\n')
dump_line(fields) == <<"{">> \o dumps_fields(fields) \o <<"}", "\n">>

\* asdict(entry), entry.__dict__: the values in the order of the fields
asdict(entry) ==
    <<<<entry.id>>, <<entry.author>>, <<entry.timestamp>>, entry.content,
      <<entry.scraped_at>>>>

\* the values of a diff record
DiffFields(d) == <<<<d.id>>, <<d.type>>, d.content, <<d.timestamp>>>>

RECURSIVE dump_lines(_)
dump_lines(rows) ==
    IF rows = << >> THEN << >> ELSE dump_line(Head(rows)) \o dump_lines(Tail(rows))

\* for line in f: the text is cut after every newline character
RECURSIVE SplitLines(_)
SplitLines(text) ==
    LET ends == {n \in DOMAIN text : text[n] = "\n"}
    IN IF text = << >> THEN << >>
       ELSE IF ends = {} THEN <<text>>
       ELSE LET n == CHOOSE x \in ends : \A y \in ends : x <= y
            IN <<SubSeq(text, 1, n)>> \o SplitLines(SubSeq(text, n + 1, Len(text)))

\* the str values of a JSON object, or the failure to read one
RECURSIVE ParseStrings(_, _, _, _)
ParseStrings(toks, inStr, cur, acc) ==
    IF toks = << >> THEN [ok |-> ~inStr, strings |-> acc]
    ELSE LET t == Head(toks)
         IN IF inStr
            THEN IF t = "\"" THEN ParseStrings(Tail(toks), FALSE, << >>, Append(acc, cur))
                 ELSE IF t = "\n" THEN [ok |-> FALSE, strings |-> acc]
                 ELSE ParseStrings(Tail(toks), TRUE, Append(cur, JsonUnescape(t)), acc)
            ELSE IF t = "\"" THEN ParseStrings(Tail(toks), TRUE, << >>, acc)
                 ELSE IF t \in {"{", ",", "}", "\n"}
                      THEN ParseStrings(Tail(toks), FALSE, << >>, acc)
                      ELSE [ok |-> FALSE, strings |-> acc]

JSONDecodeError == [py |-> "JSONDecodeError"]

\* Entry(**json.loads(line))
json_loads(line) ==
    LET r == ParseStrings(line, FALSE, << >>, << >>)
        body == IF line # << >> /\ line[Len(line)] = "\n"
                THEN SubSeq(line, 1, Len(line) - 1) ELSE line
    IN IF /\ r.ok /\ Len(r.strings) = 5
          /\ body # << >> /\ Head(body) = "{" /\ body[Len(body)] = "}"
          /\ \A n \in {1, 2, 3, 5} : Len(r.strings[n]) = 1
       THEN [id |-> r.strings[1][1], author |-> r.strings[2][1],
             timestamp |-> r.strings[3][1], content |-> r.strings[4],
             scraped_at |-> r.strings[5][1]]
       ELSE JSONDecodeError

\* the loop of load_data: an exception ends it and keeps what was appended
RECURSIVE LoadLines(_, _)
LoadLines(lines, data) ==
    IF lines = << >> THEN data
    ELSE LET obj == json_loads(Head(lines))
         IN IF obj = JSONDecodeError THEN data
            ELSE LoadLines(Tail(lines), Append(data, obj))

load_data(file) ==
    IF file.exists THEN LoadLines(SplitLines(file.text), << >>) ELSE << >>

\* how a write of rows ended: the open failed (-1) or everything was written
WriteOutcomes(rows) == {-1, Len(rows)}

\* open(path, 'w'), one line per row; every exception is printed, not raised
write_lines(file, rows, written) ==
    IF written = -1 THEN file
    ELSE [exists |-> TRUE, text |-> dump_lines(SubSeq(rows, 1, written))]

RECURSIVE MapSeq(_, _)
MapSeq(Op(_), seq) ==
    IF seq = << >> THEN << >> ELSE <<Op(Head(seq))>> \o MapSeq(Op, Tail(seq))

save_data(file, new_entries, written) ==
    write_lines(file, MapSeq(asdict, new_entries), written)

save_diff(file, d, written) == write_lines(file, MapSeq(DiffFields, d), written)

\* the loop of DataManager.diff over new_data
RECURSIVE DiffLoop(_, _)
DiffLoop(old_map, new_data) ==
    IF new_data = << >> THEN << >>
    ELSE DiffOf(old_map, Head(new_data)) \o DiffLoop(old_map, Tail(new_data))

DataManager_diff(old_data, new_data) ==
    DiffLoop(old_map_of(old_data, << >>), new_data)

\* ------------------------------------ python-scraper: EksiScraper.scrape
\* a content with a newline, a quote and a letter outside ASCII (g with breve,
\* written here by its code point)
Deprem == <<"deprem", "\n", "\"", "U+011F", "oldu">>

\* li elements of a page: data-id, content, date
VA == EntryObj("1", Storm, "10:00")
VA2 == EntryObj("1", StormUpdate, "10:00")
VB == EntryObj("2", Deprem, "10:05")
VNoId == EntryObj("", Storm, "10:07")

\* entry_list.find_all('li', attrs={'data-id': True}) of a page
PageItems == {<<VA>>, <<VA2, VB>>, <<VNoId>>, << >>}

\* data-pagecount of the pager on the first page (1 without a usable pager)
LastPages == {0, 1, 2}

\* what requests.get and the parsing of the base address can give
InitialResponses ==
    {[kind |-> "request_error"], [kind |-> "error"]}
        \cup {[kind |-> "ok", last_page |-> n] : n \in LastPages}

\* what requests.get and the parsing of a page can give
PageResponses ==
    {[kind |-> "request_error"], [kind |-> "error"], [kind |-> "no_list"]}
        \cup {[kind |-> "ok", items |-> it] : it \in PageItems}

\* parse_entry of every element: an element without data-id gives None
RECURSIVE parse_entries(_)
parse_entries(items) ==
    IF items = << >> THEN << >>
    ELSE (IF Head(items).id = "" THEN << >> ELSE <<Head(items)>>)
             \o parse_entries(Tail(items))

\* append_to_interrupted(entry) for the entries of a page: open(..., 'a') and
\* one line each; an exception of the open is printed and nothing is written
append_to_interrupted(file, got, opened) ==
    IF opened
    THEN [exists |-> file.exists \/ got # << >>,
          text |-> file.text \o dump_lines(MapSeq(asdict, got))]
    ELSE file

\* requests.get(self.base_url); get_page_count(soup)
ScrInitial(r) ==
    /\ vmain.pc = "scrape" /\ scr.pc = "initial"
    /\ scr' = IF r.kind = "ok"
              THEN [scr EXCEPT !.pc = "pages", !.initial = "ok",
                               !.last_page = r.last_page, !.current_page = 1]
              ELSE [scr EXCEPT !.pc = "return", !.initial = r.kind]
    /\ UNCHANGED <<fs, storeVars, lockVars, pipeVars, dm, lg, vfiles, vmain>>

PageFailed_Break(s, r) ==
    [s EXCEPT !.pc = "return",
              !.visited = Append(@, [page |-> s.current_page, kind |-> r.kind, got |-> << >>])]

\* except ...: print(...); continue
PageFailed(s, r) ==
    [s EXCEPT !.current_page = @ + 1,
              !.visited = Append(@, [page |-> s.current_page, kind |-> r.kind, got |-> << >>])]

\* one iteration of "for current_page in range(1, last_page + 1)"
ScrPage(r, opened) ==
    /\ vmain.pc = "scrape" /\ scr.pc = "pages"
    /\ scr.current_page <= scr.last_page
    /\ (r.kind # "ok" \/ parse_entries(r.items) = << >>) => opened
    /\ IF r.kind = "ok"
       THEN LET got == parse_entries(r.items)
            IN /\ scr' = [scr EXCEPT !.entries = @ \o got,
                                     !.current_page = @ + 1,
                                     !.visited = Append(@, [page |-> scr.current_page,
                                                            kind |-> "ok", got |-> got])]
               /\ vfiles' = [vfiles EXCEPT
                                !.interrupted = append_to_interrupted(@, got, opened)]
       ELSE /\ scr' = PageFailed(scr, r)
            /\ UNCHANGED vfiles
    /\ UNCHANGED <<fs, storeVars, lockVars, pipeVars, dm, lg, vmain>>

\* the loop is over
ScrFinish ==
    /\ vmain.pc = "scrape" /\ scr.pc = "pages"
    /\ scr.current_page > scr.last_page
    /\ scr' = [scr EXCEPT !.pc = "return"]
    /\ UNCHANGED <<fs, storeVars, lockVars, pipeVars, dm, lg, vfiles, vmain>>

\* ------------------------------------------- python-scraper: main
\* the data file found by the first run: none, or one cut in the middle of a line
TornData ==
    [exists |-> TRUE, text |-> dump_line(asdict(VA)) \o SubSeq(dump_line(asdict(VB)), 1, 4)]

InitMain ==
    /\ fs = EmptyFs
    /\ pre = fs
    /\ StoreIdle
    /\ LockIdle
    /\ PipeIdle
    /\ dm = NoDm /\ lg = NoLegacy
    /\ vfiles \in {NoFiles, [NoFiles EXCEPT !.data = TornData]}
    /\ vmain = [NoMain EXCEPT !.pc = "load", !.run = 1, !.at_load = vfiles]
    /\ scr = NoScrape

\* old_data = data_manager.load_data()
MLoad ==
    /\ vmain.pc = "load"
    /\ vmain' = [vmain EXCEPT !.pc = "scrape", !.old_data = load_data(vfiles.data),
                              !.at_load = vfiles]
    /\ scr' = [NoScrape EXCEPT !.pc = "initial"]
    /\ UNCHANGED <<fs, storeVars, lockVars, pipeVars, dm, lg, vfiles>>

\* new_data = scraper.scrape(); if new_data:
MScraped ==
    /\ vmain.pc = "scrape" /\ scr.pc = "return"
    /\ vmain' = [vmain EXCEPT !.new_data = scr.entries,
                              !.pc = IF scr.entries # << >> THEN "diff" ELSE "done"]
    /\ scr' = NoScrape
    /\ UNCHANGED <<fs, storeVars, lockVars, pipeVars, dm, lg, vfiles>>

\* diff = data_manager.diff(old_data, new_data)
MDiff ==
    /\ vmain.pc = "diff"
    /\ vmain' = [vmain EXCEPT !.diff = DataManager_diff(vmain.old_data, vmain.new_data),
                              !.pc = "save_data"]
    /\ UNCHANGED <<fs, storeVars, lockVars, pipeVars, dm, lg, vfiles, scr>>

\* data_manager.save_data(new_data)
MSaveData(written) ==
    /\ vmain.pc = "save_data"
    /\ vfiles' = [vfiles EXCEPT !.data = save_data(@, vmain.new_data, written)]
    /\ vmain' = [vmain EXCEPT !.pc = "save_diff",
                              !.saved = IF written = Len(vmain.new_data)
                                        THEN <<vmain.new_data>> ELSE << >>]
    /\ UNCHANGED <<fs, storeVars, lockVars, pipeVars, dm, lg, scr>>

\* data_manager.save_diff(diff)
MSaveDiff(written) ==
    /\ vmain.pc = "save_diff"
    /\ vfiles' = [vfiles EXCEPT !.diff = save_diff(@, vmain.diff, written)]
    /\ vmain' = [vmain EXCEPT !.pc = "debug"]
    /\ UNCHANGED <<fs, storeVars, lockVars, pipeVars, dm, lg, scr>>

\* save_debug_files(new_data, diff): os.makedirs and open are not guarded here,
\* their exception is caught by main, which returns
MDebug(ok) ==
    /\ vmain.pc = "debug"
    /\ IF ok
       THEN /\ vfiles' = [vfiles EXCEPT !.debug = 1]
            /\ vmain' = [vmain EXCEPT !.pc = "remove"]
       ELSE /\ vmain' = [vmain EXCEPT !.pc = "done", !.raised = "save_debug_files"]
            /\ UNCHANGED vfiles
    /\ UNCHANGED <<fs, storeVars, lockVars, pipeVars, dm, lg, scr>>

\* if os.path.exists(INTERRUPTED_FILE): os.remove(INTERRUPTED_FILE)
MRemove(ok) ==
    /\ vmain.pc = "remove"
    /\ IF ~vfiles.interrupted.exists
       THEN vmain' = [vmain EXCEPT !.pc = "done"] /\ UNCHANGED vfiles
       ELSE IF ok
            THEN /\ vfiles' = [vfiles EXCEPT !.interrupted = NoFile]
                 /\ vmain' = [vmain EXCEPT !.pc = "done"]
            ELSE /\ vmain' = [vmain EXCEPT !.pc = "done", !.raised = "os.remove"]
                 /\ UNCHANGED vfiles
    /\ UNCHANGED <<fs, storeVars, lockVars, pipeVars, dm, lg, scr>>

\* schedule.every(10).minutes.do(main)
MNextRun ==
    /\ vmain.pc = "done"
    /\ vmain.run < MaxRuns
    /\ vmain' = [vmain EXCEPT !.pc = "load", !.run = @ + 1, !.old_data = << >>,
                              !.new_data = << >>, !.diff = << >>, !.raised = "none"]
    /\ UNCHANGED <<fs, storeVars, lockVars, pipeVars, dm, lg, vfiles, scr>>

NextMain ==
    \/ MLoad
    \/ \E r \in InitialResponses : ScrInitial(r)
    \/ \E r \in PageResponses, opened \in BOOLEAN : ScrPage(r, opened)
    \/ ScrFinish
    \/ MScraped
    \/ MDiff
    \/ \E written \in WriteOutcomes(vmain.new_data) : MSaveData(written)
    \/ \E written \in WriteOutcomes(vmain.diff) : MSaveDiff(written)
    \/ \E ok \in BOOLEAN : MDebug(ok)
    \/ \E ok \in BOOLEAN : MRemove(ok)
    \/ MNextRun

SpecMain == InitMain /\ [][NextMain]_vars

\* ------------------------------------------ legacy scraper (scrape_eksi)
\* threads: the data-id values of the li elements, page 1 first
Threads ==
    { <<<<"e1">>, <<"e2">>>>,
      <<<<"e1", "e2">>, <<"e3">>>>,
      <<<<"e1">>, <<"e2">>, <<"e3">>>>,
      <<<<"e1", "e2">>>> }

\* `for entry in entries`: a known id ends the loop, a new one is appended to
\* the output file and noted in current_run_metadata_updates
RECURSIVE ProcessEntries(_, _, _)
ProcessEntries(ids, metadata_ids, acc) ==
    IF ids = << >> THEN acc
    ELSE IF Head(ids) \in metadata_ids
         THEN [acc EXCEPT !.stop = TRUE]
         ELSE ProcessEntries(Tail(ids), metadata_ids,
                             [acc EXCEPT !.appended = Append(@, Head(ids))])

InitLegacy ==
    /\ fs = EmptyFs
    /\ pre = fs
    /\ StoreIdle
    /\ LockIdle
    /\ PipeIdle
    /\ dm = NoDm /\ MainIdle
    /\ \E t \in Threads : lg = [NoLegacy EXCEPT !.pc = "load", !.thread = t]

\* metadata = load_metadata(); current_run_metadata_updates = {}
LgLoad ==
    /\ lg.pc = "load"
    /\ lg' = [lg EXCEPT !.pc = "initial", !.metadata = lg.metadata_file, !.updates = {}]
    /\ UNCHANGED <<fs, storeVars, lockVars, pipeVars, dm, mainVars>>

\* requests.get(BASE_URL): the page count, or the exception that ends the run
LgInitial(ok) ==
    /\ lg.pc = "initial"
    /\ ~ok => lg.failures < MaxFailures
    /\ lg' = IF ok THEN [lg EXCEPT !.pc = "page", !.page = Len(lg.thread)]
                   ELSE [lg EXCEPT !.pc = "idle", !.failures = @ + 1]
    /\ UNCHANGED <<fs, storeVars, lockVars, pipeVars, dm, mainVars>>

\* `except requests.exceptions.RequestException: ... break`
PageRaised(s) == [s EXCEPT !.failures = @ + 1, !.pc = "save"]

\* one iteration of `for current_page in range(last_page, 0, -1)`
LgPage(ok) ==
    /\ lg.pc = "page"
    /\ ~ok => lg.failures < MaxFailures
    /\ IF ok
       THEN LET r == ProcessEntries(lg.thread[lg.page], lg.metadata,
                                    [appended |-> << >>, stop |-> FALSE])
            IN lg' = [lg EXCEPT !.output_file = @ \o r.appended,
                                !.updates = @ \cup {r.appended[n] : n \in DOMAIN r.appended},
                                !.page = @ - 1,
                                !.pc = IF r.stop \/ lg.page = 1 THEN "save" ELSE "page"]
       ELSE lg' = PageRaised(lg)
    /\ UNCHANGED <<fs, storeVars, lockVars, pipeVars, dm, mainVars>>

\* `if current_run_metadata_updates: metadata.update(...); save_metadata(metadata)`;
\* an error of the write is printed and the file keeps what it had
LgSave(ok) ==
    /\ lg.pc = "save"
    /\ ~ok => (lg.failures < MaxFailures /\ lg.updates # {})
    /\ lg' = IF lg.updates = {} THEN [lg EXCEPT !.pc = "idle"]
             ELSE IF ok
             THEN [lg EXCEPT !.pc = "idle", !.metadata = @ \cup lg.updates,
                             !.metadata_file = lg.metadata \cup lg.updates]
             ELSE [lg EXCEPT !.pc = "idle", !.metadata = @ \cup lg.updates,
                             !.failures = @ + 1]
    /\ UNCHANGED <<fs, storeVars, lockVars, pipeVars, dm, mainVars>>

\* schedule.every(10).minutes.do(scrape_eksi)
LgNextRun ==
    /\ lg.pc = "idle"
    /\ lg' = [lg EXCEPT !.pc = "load", !.metadata = {}, !.updates = {}, !.page = 0]
    /\ UNCHANGED <<fs, storeVars, lockVars, pipeVars, dm, mainVars>>

NextLegacy ==
    \/ LgLoad
    \/ \E ok \in BOOLEAN : LgInitial(ok)
    \/ \E ok \in BOOLEAN : LgPage(ok)
    \/ \E ok \in BOOLEAN : LgSave(ok)
    \/ LgNextRun

SpecLegacy == InitLegacy /\ [][NextLegacy]_vars

\* the scheduler keeps running scrape_eksi and every run goes on to its end
SpecLegacyLive == InitLegacy /\ [][NextLegacy]_vars /\ WF_vars(NextLegacy)

\* ------------------------------------------------------------ properties
\* C1 as stated: at most one process at a time is between its successful
\* acquire and its release, whatever rejected and finishing processes do.
C1_MutualExclusion == Cardinality({ p \in Procs : Holds(p) }) <= 1

\* only q and the holder p have started
TwoRuns(q) ==
    \E p \in Procs \ {q} :
        /\ Holds(p)
        /\ \A r \in Procs \ {p, q} : ppc[r] = "start"

\* C2: when a second run calls flock while the first run holds the lock (no
\* other run started), it is rejected at once: sys.exit(2) with the
\* already-running outcome; a rejected run only goes on to unlink the lock file
\* and end, so it never fetches, and none of its steps changes the primary, a
\* backup or a temp file.
C2_SecondRunRejected ==
    [][\A q \in Procs :
          /\ (ppc[q] = "flock" /\ ppc'[q] # "flock" /\ TwoRuns(q))
                => /\ outcome'[q] = "already_running" /\ exitCode'[q] = 2
                   /\ ppc'[q] = "unlink"
                   /\ fs' = fs
          /\ outcome[q] = "already_running"
                => /\ ppc[q] \in {"unlink", "exited"} /\ exitCode[q] = 2
                   /\ ppc'[q] \in {ppc[q], "exited"}
                   /\ ppc'[q] # ppc[q] => fs' = fs
      ]_vars

\* C2 witness: the first run is inside its pipeline, the second has ended
\* with exit code 2, the files are as they were
C2_Witness ==
    \E p, q \in Procs :
        /\ p # q /\ Holds(p) /\ ppc[p] = "persist"
        /\ ppc[q] = "exited" /\ outcome[q] = "already_running" /\ exitCode[q] = 2
        /\ \A r \in Procs \ {p, q} : ppc[r] = "start"
        /\ fs = SeedFs

\* C3 as stated: runs that ended with different outcomes (success, partial
\* success, already running, hard failure) ended with different exit codes.
C3_DistinctExitCodes ==
    \A p, q \in Procs :
        (ppc[p] = "exited" /\ ppc[q] = "exited" /\ outcome[p] # outcome[q])
            => exitCode[p] # exitCode[q]

\* what load_state returns for a file holding a list without raising elements
StateOf(c) == DictById(c.items, EmptyState)

\* C4: while save_state_atomic runs, and after it failed or the run crashed
\* between any two file operations, the primary holds the previous content;
\* after it returned True the primary holds the complete new batch; a previous
\* primary that was complete (a list, or no file) is never seen empty or
\* partially written. The new batch is thus visible only through the rename.
C4_AtomicReplace ==
    /\ (spc # "idle" \/ result \in {"false", "crashed"}) => fs.primary = pre.primary
    /\ result = "true" => fs.primary = json_dump(validate_entries(entries).valid)
    /\ (result # "none" /\ pre.primary.kind \in {"absent", "list"})
           => fs.primary.kind \in {"absent", "list"}

\* C4 witness: the run crashed after the temp file was fully written and
\* before the rename, over an existing primary holding a different batch
C4_Witness ==
    /\ result = "crashed"
    /\ fs.tmp[pid] = json_dump(valid) /\ valid # << >>
    /\ pre.primary.kind = "list" /\ pre.primary # json_dump(valid)
    /\ fs.primary = pre.primary

\* the primary held a valid, non-empty previous state when the save began
PrevValid ==
    /\ pre.primary.kind = "list" /\ ~ListRaises(pre.primary)
    /\ StateOf(pre.primary) # EmptyState

\* the rotation and the copy have been carried out on the backups
RotationDone ==
    /\ \A n \in 1..(STATE_BACKUP_COUNT - 1) :
           Exists(pre.backup[n]) => fs.backup[n + 1] = pre.backup[n]
    /\ ~copyFailed => fs.backup[1] = pre.primary

\* C5: from the creation of the temp file to the rename, rotation and copy
\* are already done (the primary is still the previous one); and a load_state
\* that follows a crash at any step returns the previous state or the new
\* state, never the empty state, when the primary held a valid state before.
C5_RotateBeforeReplace ==
    /\ (spc \in {"tmp_open", "tmp_write", "rename"} /\ Exists(pre.primary))
           => (RotationDone /\ fs.primary = pre.primary)
    /\ (result = "crashed" /\ loaded.done /\ PrevValid)
           => /\ loaded.state \in {StateOf(pre.primary), StateOf(json_dump(valid))}
              /\ loaded.state # EmptyState

\* C5 witness: the run crashed in the middle of the copy to backup 1 and the
\* next load_state returned the previous state
C5_Witness ==
    /\ result = "crashed" /\ loaded.done /\ PrevValid
    /\ fs.backup[1] = EmptyFile
    /\ loaded.state = StateOf(pre.primary)

AllRejected == \A n \in DOMAIN entries : ~validate_entry(entries[n])

\* C7: when validation rejects every record, save_state_atomic does no file
\* operation and returns False: primary, backups and temp files are as before.
C7_RejectedBatchTouchesNothing ==
    (result \in {"running", "true", "false", "crashed"} /\ AllRejected)
        => /\ fs = pre
           /\ spc \in {"validate", "idle"}
           /\ spc = "idle" => result = "false"

\* C7 witness: a batch of invalid records was refused over an existing state
C7_Witness ==
    /\ result = "false" /\ spc = "idle" /\ entries # << >> /\ AllRejected
    /\ Exists(fs.primary)

\* index of the accepted record of an id: its first valid occurrence
IsAccepted(n) ==
    /\ validate_entry(entries[n])
    /\ \A m \in 1..(n - 1) : ~(validate_entry(entries[m]) /\ entries[m].id = entries[n].id)

\* C8: load_state after a successful save returns exactly the accepted
\* records of the batch keyed by id (first valid occurrence of each id),
\* and nothing of the replaced state.
C8_RoundTrip ==
    (result = "true" /\ loaded.done)
        => /\ loaded.log = "primary"
           /\ DOMAIN loaded.state = { entries[n].id : n \in { m \in DOMAIN entries : IsAccepted(m) } }
           /\ \A n \in DOMAIN entries : IsAccepted(n) => loaded.state[entries[n].id] = entries[n]

\* C8 witness: a batch with a duplicate id replaced a state holding another
\* id; the load returns the first occurrence only
C8_Witness ==
    /\ result = "true" /\ loaded.done
    /\ entries = <<EA, EB>>
    /\ pre.primary = json_dump(<<EB, EC>>)
    /\ DOMAIN loaded.state = {"1"} /\ loaded.state["1"] = EA

\* a file whose every record validates
FullyValid(c) ==
    /\ c.kind = "list" /\ ~ListRaises(c)
    /\ \A n \in DOMAIN c.items : validate_entry(c.items[n])

\* the primary is present but unreadable or structurally invalid
PrimaryInvalid == Exists(fs.primary) /\ ~FullyValid(fs.primary)

\* C9 as stated: a present but invalid primary (unparsable, not a list, or
\* with records failing validation) makes load_state return the most recent
\* valid backup.
C9_Original ==
    (loaded.done /\ PrimaryInvalid /\ \E n \in 1..STATE_BACKUP_COUNT : FullyValid(fs.backup[n]))
        => LET n == CHOOSE m \in 1..STATE_BACKUP_COUNT :
                        /\ FullyValid(fs.backup[m])
                        /\ \A o \in 1..(m - 1) : ~FullyValid(fs.backup[o])
           IN loaded.from = n /\ loaded.state = StateOf(fs.backup[n])

\* a backup load_state_from_backup does not skip
Usable(c) == c.kind = "list" /\ ~ListRaises(c)

Range(list) == { list[n] : n \in DOMAIN list }
\* the ids of the records of a list
IdsOf(list) == { list[n].id : n \in DOMAIN list }

\* C12: for a current batch with unique ids (valid_entries) and any previous
\* state, compute_diff returns as new exactly the current records whose id is
\* not in the previous state, as deleted exactly the previous records whose id
\* is not in the batch, as edited exactly the common ids whose content or
\* timestamp differs; the three id sets are pairwise disjoint, the summary
\* counts are their sizes; previous {1,2,3} and current {1, 2 edited, 4, 5}
\* give new {4,5}, edited {2}, deleted {3} and counts 2,1,1.
C12_DiffSets ==
    mpc \in {"p_diff", "p_diff2"} =>
        LET cur == vresult.valid
            prev == previous.state
            common == IdsOf(cur) \cap DOMAIN prev
        IN /\ Range(diff.new) = { r \in Range(cur) : r.id \notin DOMAIN prev }
           /\ Range(diff.deleted) = { prev[k] : k \in (DOMAIN prev) \ IdsOf(cur) }
           /\ IdsOf(diff.edited) =
                  { k \in common :
                      \E n \in DOMAIN cur :
                          /\ cur[n].id = k
                          /\ (cur[n].content # prev[k].content
                                \/ cur[n].timestamp # prev[k].timestamp) }
           /\ IdsOf(diff.new) \cap IdsOf(diff.edited) = {}
           /\ IdsOf(diff.new) \cap IdsOf(diff.deleted) = {}
           /\ IdsOf(diff.edited) \cap IdsOf(diff.deleted) = {}
           /\ diff.summary.new_count = Cardinality(IdsOf(diff.new))
           /\ diff.summary.edited_count = Cardinality(IdsOf(diff.edited))
           /\ diff.summary.deleted_count = Cardinality(IdsOf(diff.deleted))
           /\ (cur = <<EA, EC2, E4, E5>> /\ prev = DictById(<<EA, EC, E3>>, EmptyState))
                  => /\ IdsOf(diff.new) = {"4", "5"}
                     /\ IdsOf(diff.edited) = {"2"}
                     /\ IdsOf(diff.deleted) = {"3"}
                     /\ diff.summary.new_count = 2
                     /\ diff.summary.edited_count = 1
                     /\ diff.summary.deleted_count = 1

\* C12 witness: a record whose timestamp alone changed is reported as
\* edited, next to an untouched record and a deleted one
C12_Witness ==
    /\ mpc = "p_diff"
    /\ vresult.valid = <<EATs, EC>>
    /\ previous.state = DictById(<<EA, EC, E3>>, EmptyState)
    /\ IdsOf(diff.edited) = {"1"} /\ diff.new = << >> /\ diff.deleted = <<E3>>
    /\ diff.summary.edited_count = 1

\* C13: compute_diff of a batch of unique-id records against the state built
\* from that same batch has no new, no edited and no deleted record, whether
\* or not the capture time scraped_at of the records changed in between.
C13_NothingChanged ==
    mpc = "p_diff2" =>
        /\ diff.new = << >> /\ diff.edited = << >> /\ diff.deleted = << >>
        /\ diff.summary.new_count = 0 /\ diff.summary.edited_count = 0
        /\ diff.summary.deleted_count = 0

\* C13 witness: two records observed again at a later capture time
C13_Witness ==
    /\ mpc = "p_diff2"
    /\ Len(vresult.valid) >= 2
    /\ \A n \in DOMAIN vresult.valid :
           /\ vresult.valid[n].id \in DOMAIN previous.state
           /\ vresult.valid[n].scraped_at # previous.state[vresult.valid[n].id].scraped_at
    /\ diff.new = << >> /\ diff.edited = << >> /\ diff.deleted = << >>

\* the structural conditions of the contract on one record
WellFormed(entry) ==
    /\ \A field \in {"id", "author", "timestamp", "content", "scraped_at"} :
           entry[field] # Missing
    /\ entry.id \notin NotStr /\ entry.id # ""
    /\ entry.content \notin NotStr

\* record n of the batch is to be accepted: well formed, with no earlier
\* accepted (that is, no earlier well-formed) record of the same id
ToAccept(batch, n) ==
    /\ WellFormed(batch[n])
    /\ \A m \in 1..(n - 1) : ~(WellFormed(batch[m]) /\ batch[m].id = batch[n].id)

\* the records of the batch to be accepted, in their input order
RECURSIVE Pick(_, _)
Pick(batch, n) ==
    IF n > Len(batch) THEN << >>
    ELSE IF ToAccept(batch, n) THEN <<batch[n]>> \o Pick(batch, n + 1)
    ELSE Pick(batch, n + 1)

\* C14: validate_entries accepts a record iff it has the five required
\* fields, a non-empty string id, a string content (possibly empty) and an id
\* no earlier accepted record of the batch carries; the accepted records keep
\* their input order; every rejected record adds exactly one rejection; two
\* records sharing an id give the first one accepted and one rejection.
C14_Validation ==
    mpc = "p_valid" =>
        LET batch == walk.all_entries IN
        /\ vresult.valid = Pick(batch, 1)
        /\ Len(vresult.errors) = Len(batch) - Len(vresult.valid)
        /\ batch = <<EA, EB>>
               => /\ vresult.valid = <<EA>>
                  /\ vresult.errors = << <<"Duplicate entry ID", "1">> >>

\* C14 witness: a batch with a non-string id, a non-string content and a
\* missing field, of which only the record with the empty content is accepted
C14_Witness ==
    /\ mpc = "p_valid"
    /\ walk.all_entries = <<ENotStrId, ENotStrContent, ENoAuthor, E4>>
    /\ vresult.valid = <<E4>> /\ Len(vresult.errors) = 3

\* what a genuine first run (no state file on disk) reports for the same
\* scrape: the output and the exit status
FirstRunReport == output_data(config, vresult.valid, EmptyState, NoDiff, metadata)
FirstRunStatus == IF metadata.partial_scrape THEN 2 ELSE 0

\* C11 as stated: when the primary is damaged and every backup is exhausted,
\* load_state returns the empty state and the degradation reaches the caller:
\* the value returned to main, or what the run reports (its output and exit
\* status), is not that of a genuine first run.
C11_DegradationSurfaced ==
    (mpc = "exited" /\ previous.called /\ previous.log = "all_backups_failed"
        /\ emitted # NoOutput)
        => /\ previous.state = EmptyState
           /\ \/ previous.state # load_state(EmptyFs).state
              \/ emitted # FirstRunReport
              \/ exit_status # FirstRunStatus

\* C15 as stated: a fetch whose every attempt failed transiently gave up
\* after sleeping 1s, then 2s, then 4s.
C15_BackoffSchedule ==
    (fetch.fpc = "returned" /\ fetch.ret = "None" /\ fetch.last = "transient")
        => fetch.slept = <<1, 2, 4>>

\* C16 as stated: after a non-retryable failure (a malformed target) the
\* fetch has failed at once: one request, no sleep, no retry pending.
C16_FailImmediately ==
    fetch.last = "invalid_url"
        => fetch.fpc = "returned" /\ fetch.nreq = 1 /\ fetch.slept = << >>

\* C17: fetch_html_with_retry never raises; a fetch that got a response has
\* returned it at once, so that no request and no sleep follows the first
\* success; a fetch that returned without a response returned the failure
\* value None, after MAX_RETRIES requests.
C17_NeverRaises ==
    /\ fetch.ret # "raised"
    /\ fetch.last \in {"ok", "empty_body"}
           => /\ fetch.fpc = "returned" /\ fetch.ret \in {"text", "empty"}
              /\ fetch.nreq = fetch.attempt + 1 /\ Len(fetch.slept) = fetch.attempt
    /\ (fetch.fpc = "returned" /\ fetch.last \notin {"ok", "empty_body"})
           => /\ fetch.ret = "None"
              /\ fetch.nreq = MAX_RETRIES /\ Len(fetch.slept) = MAX_RETRIES - 1

\* C17 witness: the fetch of a page of the walk gave up and handed None to
\* scrape_page
C17_Witness ==
    /\ mpc = "walk" /\ fetch.fpc = "returned" /\ fetch.ret = "None"
    /\ fetch.nreq = MAX_RETRIES /\ fetch.last = "transient"

\* the entries of the pages attempted so far, in order
RECURSIVE Gathered(_)
Gathered(walked) ==
    IF walked = << >> THEN << >> ELSE walked[1].found \o Gathered(Tail(walked))

\* C18: a failed page fetch does not end the walk: the pages are attempted
\* in the order of their urls, each failed page is counted and adds no
\* record, and a run that ended either attempted every page or failed on the
\* first (discovery) fetch, and then ended with exit status 1, no record and
\* no page attempted.
C18_WalkGoesOn ==
    /\ mpc \notin {"off", "discover"}
           => LET urls == build_page_urls(walk.page_count) IN
              /\ Len(walk.walked) = IF mpc = "walk" THEN walk.page - 1 ELSE Len(urls)
              /\ \A n \in DOMAIN walk.walked :
                     /\ walk.walked[n].url = urls[n]
                     /\ ~walk.walked[n].success => walk.walked[n].found = << >>
              /\ metadata.failed_pages =
                     Cardinality({ n \in DOMAIN walk.walked : ~walk.walked[n].success })
              /\ metadata.successful_pages =
                     Cardinality({ n \in DOMAIN walk.walked : walk.walked[n].success })
              /\ walk.all_entries = Gathered(walk.walked)
              /\ metadata.total_pages = walk.page_count
              /\ mpc = "exited" => (walk.page_count > 0 \/ NotHtml(fetch))
    /\ (mpc = "exited" /\ walk.page_count = 0)
           => /\ NotHtml(fetch) /\ exit_status = 1
              /\ walk.walked = << >> /\ walk.all_entries = << >> /\ emitted = NoOutput

\* C18 witness: the first page failed, the second was still fetched and its
\* records were gathered
C18_Witness ==
    /\ mpc = "validate" /\ Len(walk.walked) = 2
    /\ ~walk.walked[1].success /\ walk.walked[2].success
    /\ walk.all_entries = <<EB, EC>>
    /\ metadata.failed_pages = 1 /\ metadata.partial_scrape

\* C19: a run that gathered no record, or none that validates, ended with
\* exit status 1 without calling load_state or save_state_atomic and without
\* output: the primary, the backups and the temp files are as it found them.
C19_NothingGathered ==
    (mpc \in {"load", "diff", "save", "output", "exited"}
        /\ (walk.all_entries = << >> \/ validate_entries(walk.all_entries).valid = << >>))
        => /\ mpc = "exited" /\ exit_status = 1
           /\ ~previous.called /\ result = "none"
           /\ fs = fs0 /\ emitted = NoOutput

\* C19 witness: every page was fetched and held no record, over an existing
\* state file
C19_Witness ==
    /\ mpc = "exited" /\ exit_status = 1
    /\ walk.walked # << >> /\ \A n \in DOMAIN walk.walked : walk.walked[n].success
    /\ walk.all_entries = << >>
    /\ config.state_file /\ fs = SeedFs

\* C20: for a run given a state file: when save_state_atomic returned False
\* the run ended with exit status 1 and wrote no output, although records
\* were fetched and validated; and a run that ended with exit status 0 or 2
\* has replaced the primary by its batch.
C20_SaveFailureIsFatal ==
    /\ result = "false"
           => /\ mpc = "exited" /\ exit_status = 1 /\ emitted = NoOutput
              /\ vresult.valid # << >>
    /\ (mpc = "exited" /\ exit_status \in {0, 2} /\ config.state_file)
           => /\ result = "true"
              /\ fs.primary = json_dump(vresult.valid)
              /\ emitted # NoOutput

\* C20 witness: every page was fetched, the records validated, the save
\* failed after the rotation
C20_Witness ==
    /\ result = "false" /\ mpc = "exited" /\ exit_status = 1
    /\ metadata.failed_pages = 0 /\ vresult.valid # << >>
    /\ fs # fs0 /\ fs.primary = fs0.primary

\* C21: on a first run (load_state returned the empty state) compute_diff is
\* not called, the output carries a null diff and the validated batch still
\* replaces the primary; with a previous state the diff is the one of the
\* batch against the state loaded from the files as the run found them,
\* also after the save replaced the primary.
C21_DiffBeforeSave ==
    (previous.called /\ mpc \in {"save", "output", "exited"})
        => /\ previous.state = load_state(fs0).state
           /\ IF previous.state = EmptyState
              THEN /\ diff = NoDiff
                   /\ emitted # NoOutput
                          => (emitted.diff = NoDiff /\ emitted.entries = vresult.valid)
              ELSE diff = compute_diff(vresult.valid, load_state(fs0).state)
           /\ (mpc \in {"output", "exited"} /\ result = "true")
                  => fs.primary = json_dump(vresult.valid)

\* C21 witness: a run over an existing state ended after the save; its diff
\* holds changes, while the diff against the saved batch would hold none
C21_Witness ==
    /\ mpc = "exited" /\ result = "true" /\ emitted # NoOutput
    /\ previous.state # EmptyState
    /\ diff.summary.deleted_count > 0
    /\ diff # compute_diff(vresult.valid, load_state(fs).state)

\* a page of the walk failed
SomePageFailed == \E n \in DOMAIN walk.walked : ~walk.walked[n].success

\* C22: a run that produced a result reports partial_scrape = true, and ends
\* with exit status 2, exactly when at least one page of the walk failed;
\* otherwise it reports false and ends with exit status 0, so that the two
\* never end alike.
C22_PartialFlag ==
    (mpc = "exited" /\ emitted # NoOutput)
        => /\ emitted.metadata.partial_scrape <=> SomePageFailed
           /\ exit_status = 2 <=> SomePageFailed
           /\ exit_status = 0 <=> ~SomePageFailed

\* C22 witness: one page of two failed and the run reported the records of
\* the other one with the warning outcome
C22_Witness ==
    /\ mpc = "exited" /\ emitted # NoOutput /\ exit_status = 2
    /\ emitted.metadata.partial_scrape /\ emitted.metadata.failed_pages = 1
    /\ emitted.metadata.successful_pages = 1

\* C23: a run that acquired the lock and is inside its pipeline eventually
\* goes through the release on whatever path main ends (success, partial,
\* no data, validation failure, save failure, output failure): its flock is
\* dropped, the lock file is removed unless the release itself failed, and
\* the process ends with the exit status main chose; the release changes
\* neither that status nor the output nor the state files.
C23_ReleaseOnEveryPath ==
    /\ (Holds(1) /\ ppc[1] = "scrape")
           ~> (/\ ppc[1] \in {"exited", "release_failed"}
               /\ ~Holds(1) /\ fd[1] = 0
               /\ ppc[1] = "exited" => lockPath = 0
               /\ mpc = "exited" /\ exitCode[1] = exit_status)
    /\ [][(ppc[1] = "scrape" /\ ppc'[1] \in {"exited", "release_failed"})
             => (exit_status' = exit_status /\ emitted' = emitted /\ fs' = fs)]_vars

\* C23 witness: the save failed, the release failed too, and the process
\* ended with the exit status of the save failure
C23_Witness ==
    /\ ppc[1] = "release_failed" /\ result = "false"
    /\ exit_status = 1 /\ exitCode[1] = 1 /\ ~Holds(1)

\* C26: the primary and the backups change only in the step in which a run
\* inside its pipeline, holding the flock it acquired, calls
\* save_state_atomic; the steps of acquire_lock, of the fetcher and the page
\* walk, validation, load_state, compute_diff, the output and the release
\* leave them as they are.
C26_OnlySaveWrites ==
    [][(fs'.primary # fs.primary \/ fs'.backup # fs.backup)
          => (mpc = "save" /\ mpc' # "save" /\ Holds(1) /\ ppc[1] = "scrape"
                /\ config.state_file)]_vars

\* C26 witness: the run, holding the lock, has rotated the backups and
\* replaced the primary
C26_Witness ==
    /\ mpc = "output" /\ Holds(1) /\ lockText[fd[1]] = 1
    /\ fs.primary # fs0.primary /\ fs.backup[1] = fs0.primary /\ fs.backup # fs0.backup

\* C24 as stated: while a process is between its successful acquire and its
\* release, the lock path names the file it locked and that file holds its
\* process identifier, whatever the other processes do.
C24_LockFileContent ==
    \A p \in Procs :
        (Holds(p) /\ ppc[p] \in {"scrape", "persist", "output"})
            => (lockPath = fd[p] /\ lockText[fd[p]] = p)

\* C25 as stated: the walk attempts exactly N targets, the first being the
\* base address itself (0) and the p-th, for p > 1, the base address with
\* the page parameter p.
C25_PageTargets ==
    mpc \in {"validate", "load", "diff", "save", "output", "exited"}
        => /\ Len(walk.walked) = walk.page_count
           /\ \A n \in DOMAIN walk.walked :
                  walk.walked[n].url = IF n = 1 THEN 0 ELSE n

\* C27: a save creates or truncates the temp file named after its own
\* process identifier whatever that file held, writes its batch into it and
\* renames it: the content that replaces the primary is exactly the batch of
\* this save, and the temp files of other process identifiers are neither
\* read nor changed.
C27_OwnTempFile ==
    /\ spc = "tmp_write" => fs.tmp[pid] = EmptyFile
    /\ spc = "rename" => fs.tmp[pid] = json_dump(valid)
    /\ result = "true"
           => /\ fs.primary = json_dump(validate_entries(entries).valid)
              /\ ~Exists(fs.tmp[pid])
    /\ \A q \in TmpIds \ {pid} : fs.tmp[q] = pre.tmp[q]

\* C27 witness: an earlier run with the same process identifier left a temp
\* file behind; the save replaced the primary by its own batch
C27_Witness ==
    /\ result = "true"
    /\ Exists(pre.tmp[pid]) /\ pre.tmp[pid] # json_dump(valid)
    /\ fs.primary = json_dump(valid) /\ fs.primary # pre.primary

\* diff(old_data, new_data) returned, old_data being one entry of content o
\* and new_data the entry of the same id with content n
DiffCase(o, n) ==
    /\ dm.dpc = "returned"
    /\ dm.old_data = <<EntryObj("1", o, "10:00")>>
    /\ dm.new_data = <<EntryObj("1", n, "10:00")>>

\* C28 as stated: "a storm hit" followed by "a storm hit. update: 5.8
\* magnitude" gives one record of type appended whose delta is "update: 5.8
\* magnitude"; "a storm hit" followed by "totally different text" gives one
\* record of type edited with the full new content.
C28_Original ==
    /\ DiffCase(Storm, StormUpdate)
           => dm.ret = <<[id |-> "1", type |-> "appended",
                          content |-> <<"update: 5.8 magnitude">>, timestamp |-> "10:00"]>>
    /\ DiffCase(Storm, Different)
           => dm.ret = <<[id |-> "1", type |-> "edited",
                          content |-> Different, timestamp |-> "10:00"]>>

\* C28 amended: the delta of the appended record is everything after the old
\* content, ". update: 5.8 magnitude", punctuation and blank included; the
\* edited record carries the full new content.
C28_ExactSuffix ==
    /\ DiffCase(Storm, StormUpdate)
           => dm.ret = <<[id |-> "1", type |-> "appended",
                          content |-> <<".", " ", "update: 5.8 magnitude">>,
                          timestamp |-> "10:00"]>>
    /\ DiffCase(Storm, Different)
           => dm.ret = <<[id |-> "1", type |-> "edited",
                          content |-> Different, timestamp |-> "10:00"]>>

\* C28 witness: the diff of the first example returned a record
C28_Witness == DiffCase(Storm, StormUpdate) /\ Len(dm.ret) = 1

\* the records of the returned diff about one id
RecordsOf(id) == SelectSeq(dm.ret, LAMBDA r : r.id = id)

\* the entries of old_data with one id
OldOf(id) == SelectSeq(dm.old_data, LAMBDA e : e.id = id)

\* new ends with more than old, and the surplus is not only whitespace
IsAppend(old, new) ==
    /\ Len(old) < Len(new)
    /\ \A n \in 1..Len(old) : new[n] = old[n]
    /\ \E n \in (Len(old) + 1)..Len(new) : new[n] \notin Whitespace

\* C29 as stated: an id absent from old_data is reported as new with its
\* full content; an id present in both whose new content starts with the old
\* content and whose suffix is not blank is reported as appended with exactly
\* that suffix; any other change of content is reported as edited with the
\* full new content.
C29_Classification ==
    dm.dpc = "returned"
        => \A n \in DOMAIN dm.new_data :
               LET e == dm.new_data[n]
                   old == OldOf(e.id)
                   rec(type, content) ==
                       [id |-> e.id, type |-> type, content |-> content,
                        timestamp |-> e.timestamp]
               IN /\ old = << >> => RecordsOf(e.id) = <<rec("new", e.content)>>
                  /\ old # << >> /\ IsAppend(old[1].content, e.content)
                         => RecordsOf(e.id)
                                = <<rec("appended",
                                        SubSeq(e.content, Len(old[1].content) + 1,
                                               Len(e.content)))>>
                  /\ old # << >> /\ e.content # old[1].content
                         /\ ~IsAppend(old[1].content, e.content)
                         => RecordsOf(e.id) = <<rec("edited", e.content)>>

\* C30 as stated: no change is dropped. Every id of both old and new data
\* whose content differs has exactly one record in the diff, of type appended
\* when the new content is the old one plus a suffix that is not blank, and of
\* type edited with the full new content otherwise, a suffix of whitespace
\* only included.
C30_NoChangeDropped ==
    dm.dpc = "returned"
        => \A n \in DOMAIN dm.new_data, o \in DOMAIN dm.old_data :
               (dm.new_data[n].id = dm.old_data[o].id
                    /\ dm.new_data[n].content # dm.old_data[o].content)
                   => /\ Len(RecordsOf(dm.new_data[n].id)) = 1
                      /\ LET r == RecordsOf(dm.new_data[n].id)[1]
                         IN IF IsAppend(dm.old_data[o].content, dm.new_data[n].content)
                            THEN r.type = "appended"
                            ELSE r.type = "edited" /\ r.content = dm.new_data[n].content

\* the ids of a list of entries, in order
IdList(es) == [n \in DOMAIN es |-> es[n].id]

\* C31 as stated: the list EksiScraper.scrape returns holds each entry id
\* once, also when several pages served the same id.
C31_EachEntryOnce ==
    (vmain.pc = "scrape" /\ scr.pc = "return")
        => \A m, n \in DOMAIN scr.entries :
               scr.entries[m].id = scr.entries[n].id => m = n

\* what the visited pages gathered, in the order of the visits
RECURSIVE GotOf(_)
GotOf(visited) ==
    IF visited = << >> THEN << >> ELSE Head(visited).got \o GotOf(Tail(visited))

\* C32: scrape always returns and never raises. An error of the initial page
\* load gives the empty list; otherwise every page 1..last_page was visited
\* once, in increasing order, whatever happened on the pages before it; a page
\* that failed or had no entry list contributed nothing, and the returned list
\* is what the other pages gave, in page order.
C32_ScrapeNeverRaises ==
    /\ ~scr.raised
    /\ (vmain.pc = "scrape" /\ scr.pc = "return")
           => IF scr.initial # "ok"
              THEN scr.entries = << >> /\ scr.visited = << >>
              ELSE /\ Len(scr.visited) = scr.last_page
                   /\ \A n \in DOMAIN scr.visited :
                          /\ scr.visited[n].page = n
                          /\ scr.visited[n].kind # "ok" => scr.visited[n].got = << >>
                   /\ scr.entries = GotOf(scr.visited)

\* C32 witness: the first page failed and the second one was still scraped
C32_Witness ==
    /\ vmain.pc = "scrape" /\ scr.pc = "return"
    /\ Len(scr.visited) = 2
    /\ scr.visited[1].kind \in {"request_error", "error"}
    /\ scr.visited[2].kind = "ok" /\ scr.entries # << >>

\* C33: load_data after a save_data(entries) that wrote its file returns the
\* saved entries: as many, with the same ids in the same order (and the same
\* values in every field), also for contents with newlines, quotes and
\* letters outside ASCII.
C33_SaveLoadRoundTrip ==
    (vmain.pc \in {"scrape", "diff", "save_data"} /\ vmain.saved # << >>)
        => /\ Len(vmain.old_data) = Len(vmain.saved[1])
           /\ IdList(vmain.old_data) = IdList(vmain.saved[1])
           /\ vmain.old_data = vmain.saved[1]

\* C33 witness: the next run loaded a list of several entries, one of them
\* with a newline, a quote and a non-ASCII letter in its content
C33_Witness ==
    /\ vmain.run = 2 /\ vmain.pc = "scrape"
    /\ vmain.saved # << >>
    /\ Len(vmain.old_data) >= 2
    /\ \E n \in DOMAIN vmain.old_data : vmain.old_data[n].content = Deprem

\* C38 as stated: a run of the python-scraper main in which scrape returned
\* nothing or a step raised leaves the data file and the diff file as it found
\* them; in a run with entries the diff is the one against the data loaded
\* before save_data overwrote it, and the interrupted file is not removed
\* before data and diff were saved.
C38_MainFrame ==
    /\ (vmain.pc = "done" /\ (vmain.new_data = << >> \/ vmain.raised # "none"))
           => /\ vfiles.data = vmain.at_load.data
              /\ vfiles.diff = vmain.at_load.diff
    /\ vmain.pc \in {"save_data", "save_diff", "debug", "remove"}
           => /\ vmain.diff = DataManager_diff(load_data(vmain.at_load.data),
                                               vmain.new_data)
              /\ vmain.at_load.interrupted.exists => vfiles.interrupted.exists

\* C34: when scrape_all_pages has returned after a successful discovery
\* fetch, successful_pages + failed_pages = total_pages, the page targets were
\* attempted once each in the order of the urls, and partial_scrape is true
\* exactly when failed_pages > 0; when the discovery fetch failed the three
\* counters are 0 and partial_scrape is false.
C34_PageAccounting ==
    /\ mpc \in {"validate", "load", "diff", "save", "output"}
           \/ (mpc = "exited" /\ walk.page_count > 0)
           => /\ metadata.successful_pages + metadata.failed_pages = metadata.total_pages
              /\ metadata.total_pages = walk.page_count
              /\ [n \in DOMAIN walk.walked |-> walk.walked[n].url]
                     = build_page_urls(walk.page_count)
              /\ metadata.partial_scrape <=> metadata.failed_pages > 0
    /\ (mpc = "exited" /\ walk.page_count = 0)
           => /\ metadata.total_pages = 0 /\ metadata.successful_pages = 0
              /\ metadata.failed_pages = 0 /\ ~metadata.partial_scrape

\* C34 witness: a walk over two pages ended with one page of each kind
C34_Witness ==
    /\ mpc = "validate"
    /\ metadata.total_pages = 2
    /\ metadata.successful_pages = 1 /\ metadata.failed_pages = 1
    /\ metadata.partial_scrape

\* C35: in a run with a state file the new state is committed before the
\* result is emitted: when write_output starts, save_state_atomic has returned
\* success and the state file holds the batch of this run. A run whose output
\* write fails therefore ends with exit status 1 and the state file already
\* replaced, and the next run, loading that state and observing the same
\* records, reports none of this run's changes again.
C35_CommitBeforeEmit ==
    /\ (config.state_file /\ mpc = "output")
           => /\ result = "true"
              /\ fs.primary = json_dump(vresult.valid)
    /\ (config.state_file /\ mpc = "exited" /\ result = "true" /\ emitted = NoOutput)
           => /\ exit_status = 1
              /\ fs.primary = json_dump(vresult.valid)
              /\ LET again == compute_diff(vresult.valid, load_state(fs).state)
                 IN again.new = << >> /\ again.edited = << >> /\ again.deleted = << >>

\* C35 witness: the run found changes, saved the new state, failed to write
\* its output and ended as a hard failure
C35_Witness ==
    /\ config.state_file /\ mpc = "exited" /\ result = "true"
    /\ emitted = NoOutput /\ exit_status = 1
    /\ diff # NoDiff /\ (diff.new # << >> \/ diff.edited # << >>)
    /\ fs.primary # fs0.primary

\* the ids of a previous state that the batch of this run does not carry
MissingIds == DOMAIN previous.state \ IdsOf(vresult.valid)

\* C36: a partial run that gathered records replaces the state file by its
\* partial batch. Every id of the previous state that the batch lacks (its
\* page was not fetched) is reported in deleted and is absent from the saved
\* state, so that a later run that sees the record again reports it as new.
C36_PartialRunShrinksState ==
    (config.state_file /\ mpc = "output" /\ SomePageFailed)
        => /\ result = "true"
           /\ fs.primary = json_dump(vresult.valid)
           /\ previous.state # EmptyState
                  => \A id \in MissingIds :
                         /\ \E n \in DOMAIN diff.deleted : diff.deleted[n].id = id
                         /\ id \notin DOMAIN load_state(fs).state
                         /\ LET later == compute_diff(Append(vresult.valid, previous.state[id]),
                                                      load_state(fs).state)
                            IN \E n \in DOMAIN later.new : later.new[n].id = id

\* C36 witness: the second page failed, the stored record of id 2 is not in
\* the batch and the saved state has lost it
C36_Witness ==
    /\ config.state_file /\ mpc = "output" /\ SomePageFailed
    /\ "2" \in DOMAIN previous.state /\ "2" \in MissingIds
    /\ Len(walk.walked) = 2 /\ ~walk.walked[2].success
    /\ fs.primary = json_dump(vresult.valid) /\ fs.primary # fs0.primary

\* C37 as stated: whenever save_state_atomic returned failure, the primary
\* state file holds what it held before the call and no temp file of the
\* calling process is left; the backups may have been rotated.
C37_FailedSaveLeavesNoTrace ==
    result = "false"
        => /\ fs.primary = pre.primary
           /\ ~Exists(fs.tmp[pid])

\* what compute_diff reports for the same old and new data
SnapshotDiff == compute_diff(dm.new_data, old_map_of(dm.old_data, << >>))

\* C39: DataManager.diff emits at most one record per entry of new_data, in
\* the order of new_data, and none for an id that new_data lacks or whose
\* content is unchanged: an entry that disappeared and an entry of which only
\* the timestamp changed leave no record, while compute_diff reports the
\* first as deleted and the second as edited.
C39_NoDeletionsNoTimestamps ==
    dm.dpc = "returned"
        => /\ \E f \in [DOMAIN dm.ret -> DOMAIN dm.new_data] :
                  /\ \A m, n \in DOMAIN dm.ret : m < n => f[m] < f[n]
                  /\ \A n \in DOMAIN dm.ret : dm.ret[n].id = dm.new_data[f[n]].id
           /\ \A o \in DOMAIN dm.old_data :
                  LET old == dm.old_data[o]
                  IN /\ old.id \notin IdsOf(dm.new_data)
                            => /\ RecordsOf(old.id) = << >>
                               /\ \E n \in DOMAIN SnapshotDiff.deleted :
                                      SnapshotDiff.deleted[n].id = old.id
                     /\ \A n \in DOMAIN dm.new_data :
                            (dm.new_data[n].id = old.id
                                 /\ dm.new_data[n].content = old.content)
                                => /\ RecordsOf(old.id) = << >>
                                   /\ dm.new_data[n].timestamp # old.timestamp
                                          => \E e \in DOMAIN SnapshotDiff.edited :
                                                 SnapshotDiff.edited[e].id = old.id

\* C39 witness: one entry disappeared, of another one only the timestamp
\* changed, and the diff is empty
C39_Witness ==
    /\ dm.dpc = "returned" /\ dm.ret = << >>
    /\ \E o \in DOMAIN dm.old_data : dm.old_data[o].id \notin IdsOf(dm.new_data)
    /\ \E o \in DOMAIN dm.old_data, n \in DOMAIN dm.new_data :
           /\ dm.new_data[n].id = dm.old_data[o].id
           /\ dm.new_data[n].content = dm.old_data[o].content
           /\ dm.new_data[n].timestamp # dm.old_data[o].timestamp

\* the ids of the entries of the thread
ThreadIds == UNION { {lg.thread[n][k] : k \in DOMAIN lg.thread[n]} : n \in DOMAIN lg.thread }

\* C40 as stated: over repeated runs of scrape_eksi whose requests succeed
\* from some time on, every entry of the thread is eventually appended to the
\* output file and recorded in the metadata file, the entries of the pages
\* behind a page whose fetch failed in an earlier run included, and no id that
\* the metadata file records is appended again.
C40_EveryEntryEventually ==
    /\ <>(\A id \in ThreadIds :
              /\ \E n \in DOMAIN lg.output_file : lg.output_file[n] = id
              /\ id \in lg.metadata_file)
    /\ [][\A n \in DOMAIN lg.output_file' :
              n > Len(lg.output_file) => lg.output_file'[n] \notin lg.metadata_file]_vars

====
